---- MODULE Spec2Model ----
(***************************************************************************)
(* MEVBot: price cache, arbitrage detector, risk manager and scan loop.     *)
(*                                                                          *)
(* Numbers.  JavaScript doubles are modelled by exact rationals             *)
(* [num, den] (den > 0) and compared by cross multiplication.  Wei amounts  *)
(* (BigInt, 1e18 per ETH) are counted in units of UnitsPerEth per ETH, so   *)
(* that BigInt(Math.floor(x * 1e18)) keeps its truncation.  Gas prices are  *)
(* in gwei.  minProfitEth is in units of 0.0001 ETH, so minProfitEth * 100  *)
(* (a percentage) is minProfitEth / 100.                                    *)
(***************************************************************************)
EXTENDS Integers, Sequences, FiniteSets, Bags, TLC

VARIABLES
    minProfitEth,   \* config.mev.minProfitEth (env MIN_PROFIT_ETH or default)
    today,          \* new Date().toDateString(), as a day number
    watchedPairs,   \* this.monitor.watchedPairs (Map, insertion order)
    priceCache,     \* this.monitor.priceCache   (Map, insertion order)
    monitorId,      \* identity of the DexMonitor object held in this.monitor
    scanResult,     \* value returned by scanForArbitrageOpportunities, held
                    \* while that call is the last operation
    dailyStats,     \* this.riskManager.dailyStats (Null: no RiskManager yet)
    assessment,     \* value returned by assessTradeRisk, held while that
                    \* call is the last operation
    haltResult,     \* value returned by shouldHaltTrading, held likewise
    lastOp,         \* the operation that was called last
    lastFetch,      \* the last fetchPairPrice call: pool, what the pair
                    \* contract reported and the value the call returned
    lastCall,       \* the arguments of the last call made on the RiskManager
                    \* or the ArbitrageExecutor from outside the scan loop
                    \* and, for getDailyStats, the value it returned
    isRunning,      \* MEVBot.isRunning
    stats,          \* MEVBot.stats
    inits,          \* start() calls suspended inside initialize()
    loops,          \* monitorLoop() activations
    exited,         \* process.exit() has been called
    tripDay,        \* history: the day on which the loss ceiling was reached
    retry,          \* a Web3Utils.retry call: its arguments, locals and
                    \* position, with the invocations of fn it has made
    limiter         \* a limiter made by createRateLimiter: its calls array,
                    \* its callers and the functions started of late

vars == <<minProfitEth, today, watchedPairs, priceCache, monitorId, scanResult,
          lastFetch, lastCall,
          dailyStats, assessment, haltResult, lastOp, isRunning, stats,
          inits, loops, exited, tripDay, retry, limiter>>

monitorVars == <<watchedPairs, priceCache, monitorId, scanResult, lastFetch>>
riskVars == <<dailyStats, assessment, haltResult, tripDay, lastCall>>
botVars == <<isRunning, stats, inits, loops, exited>>
utilVars == <<retry, limiter>>

Null == [null |-> TRUE]

\* Web3Utils is not in use.
UtilsIdle == retry = Null /\ limiter = Null

(***************************************************************************)
(* Bounds of the model.                                                     *)
(***************************************************************************)
MaxDay == 1
MaxTrades == 2
MaxScans == 2
MaxRetries == 3

(***************************************************************************)
(* Rational arithmetic standing for doubles.                                *)
(***************************************************************************)
Abs(x) == IF x < 0 THEN -x ELSE x

RECURSIVE GCD(_, _)
GCD(a, b) == IF b = 0 THEN a ELSE GCD(b, a % b)

\* the value n / d, in lowest terms
Rat(n, d) == [num |-> n \div GCD(Abs(n), d), den |-> d \div GCD(Abs(n), d)]

RatSub(a, b) == Rat(a.num * b.den - b.num * a.den, a.den * b.den)

RatLess(a, b) == a.num * b.den < b.num * a.den

RatEq(a, b) == a.num * b.den = b.num * a.den

(***************************************************************************)
(* Configuration (config.js).                                               *)
(***************************************************************************)
DefaultMinProfitEth == 100

MinProfitChoices == {1, 10, DefaultMinProfitEth}

MaxSlippage == 3

MaxGasPrice == 50

\* config.mev.minProfitEth * 100, a percentage
MinProfitPercent == Rat(minProfitEth, 100)

(***************************************************************************)
(* DexMonitor                                                               *)
(***************************************************************************)
Tokens == {"DAI", "WETH", "USDC", "WBTC"}

PairAddresses == {"0xa478", "0xb4e1", "0xc3d0", "0xd3d2"}

\* What token0()/token1() of the pair contracts answer on the chain.
ChainTokens == {
    [a \in PairAddresses |->
        CASE a = "0xa478" -> <<"DAI", "WETH">>
          [] a = "0xb4e1" -> <<"WETH", "DAI">>
          [] a = "0xc3d0" -> <<"DAI", "WETH">>
          [] a = "0xd3d2" -> <<"WETH", "USDC">>],
    [a \in PairAddresses |->
        CASE a = "0xa478" -> <<"DAI", "WETH">>
          [] a = "0xb4e1" -> <<"WETH", "DAI">>
          [] a = "0xc3d0" -> <<"DAI", "WETH">>
          [] a = "0xd3d2" -> <<"USDC", "WBTC">>],
    [a \in PairAddresses |->
        IF a = "0xb4e1" THEN <<"WETH", "DAI">> ELSE <<"DAI", "WETH">>] }

ExchangeOf(a) == IF a \in {"0xa478", "0xd3d2"} THEN "Uniswap V2" ELSE "SushiSwap"

\* Reserves the pair contracts may report: <<reserve0, reserve1>>.
ReserveChoices(a) ==
    {<<0, 1800>>, <<1, 0>>} \cup
    CASE a = "0xa478" -> {<<1, 1800>>, <<1, 1900>>}
      [] a = "0xb4e1" -> {<<1, 1900>>, <<1, 1999>>, <<1, 2000>>}
      [] a = "0xc3d0" -> {<<1, 1800>>, <<1, 2000>>, <<1, 2001>>}
      [] a = "0xd3d2" -> {<<1, 1800>>, <<1, 2000>>}

\* Position of the entry with the given key in an insertion-ordered Map.
IndexOf(map, address) ==
    IF \E i \in DOMAIN map : map[i].pairAddress = address
    THEN CHOOSE i \in DOMAIN map : map[i].pairAddress = address
    ELSE 0

\* Map.prototype.set that keeps the value of a key already present
MapSetKeepFirst(map, entry) ==
    LET i == IndexOf(map, entry.pairAddress)
    IN IF i = 0 THEN Append(map, entry) ELSE map

\* Map.prototype.set: overwrite in place, or append a new key.
MapSet(map, entry) ==
    LET i == IndexOf(map, entry.pairAddress)
    IN IF i = 0 THEN Append(map, entry) ELSE [map EXCEPT ![i] = entry]

\* The entry addWatchPair(pairAddress, exchangeName) stores.
WatchEntry(address, tokens, exchangeName) ==
    [pairAddress |-> address, token0 |-> tokens[1], token1 |-> tokens[2],
     exchange |-> exchangeName]

\* The priceData object built by fetchPairPrice.
PriceData(pair, reserves) ==
    [pairAddress |-> pair.pairAddress,
     token0 |-> pair.token0,
     token1 |-> pair.token1,
     reserve0 |-> reserves[1],
     reserve1 |-> reserves[2],
     price0 |-> Rat(reserves[2], reserves[1]),
     price1 |-> Rat(reserves[1], reserves[2]),
     exchange |-> pair.exchange]

\* fetchPairPrice returning null only when both reserves are zero
FetchedCacheBothZero(cache, pair, reserves) ==
    IF reserves[1] = 0 /\ reserves[2] = 0
    THEN cache
    ELSE MapSet(cache, PriceData(pair, reserves))

\* fetchPairPrice after getReserves() has answered: the new cache.
FetchedCache(cache, pair, reserves) ==
    IF reserves[1] = 0 \/ reserves[2] = 0
    THEN cache
    ELSE MapSet(cache, PriceData(pair, reserves))

\* fetchPairPrice after getReserves() has answered: the value returned.
FetchedValue(pair, reserves) ==
    IF reserves[1] = 0 \/ reserves[2] = 0
    THEN Null
    ELSE PriceData(pair, reserves)

\* The same after getReserves() has thrown: caught, null returned.
FetchFailed == <<-1, -1>>

\* hasSameTokenPair without the reversed-order disjunct
hasSameTokenPairSameOrder(price1, price2) ==
    price1.token0 = price2.token0 /\ price1.token1 = price2.token1

\* hasSameTokenPair matching on one shared token
hasSameTokenPairAnyShared(price1, price2) ==
    \/ (price1.token0 = price2.token0 \/ price1.token1 = price2.token1)
    \/ (price1.token0 = price2.token1 \/ price1.token1 = price2.token0)

hasSameTokenPair(price1, price2) ==
    \/ (price1.token0 = price2.token0 /\ price1.token1 = price2.token1)
    \/ (price1.token0 = price2.token1 /\ price1.token1 = price2.token0)

\* the difference relative to the lower price: (|p1 - p2| / min(p1, p2)) * 100
ProfitPercentOfLower(p1, p2) ==
    IF p1.num * p2.den < p2.num * p1.den
    THEN Rat(100 * Abs(p1.num * p2.den - p2.num * p1.den), p1.num * p2.den)
    ELSE Rat(100 * Abs(p1.num * p2.den - p2.num * p1.den), p2.num * p1.den)

\* (|p1 - p2| / ((p1 + p2) / 2)) * 100
ProfitPercent(p1, p2) ==
    Rat(200 * Abs(p1.num * p2.den - p2.num * p1.den),
        p1.num * p2.den + p2.num * p1.den)

NoiseFloor == Rat(1, 10)

\* calculateArbitrage without the noise floor
calculateArbitrageNoFloor(price1, price2) ==
    [pair1 |-> [address |-> price1.pairAddress,
                exchange |-> price1.exchange,
                price |-> price1.price0],
     pair2 |-> [address |-> price2.pairAddress,
                exchange |-> price2.exchange,
                price |-> price2.price0],
     profitPercent |-> ProfitPercent(price1.price0, price2.price0),
     token0 |-> price1.token0,
     token1 |-> price1.token1]

\* calculateArbitrage naming the tokens after the second observation
calculateArbitrageSecondTokens(price1, price2) ==
    LET profitPercent == ProfitPercent(price1.price0, price2.price0)
    IN IF RatLess(profitPercent, NoiseFloor)
       THEN Null
       ELSE [pair1 |-> [address |-> price1.pairAddress,
                        exchange |-> price1.exchange,
                        price |-> price1.price0],
             pair2 |-> [address |-> price2.pairAddress,
                        exchange |-> price2.exchange,
                        price |-> price2.price0],
             profitPercent |-> profitPercent,
             token0 |-> price2.token0,
             token1 |-> price2.token1]

calculateArbitrage(price1, price2) ==
    LET profitPercent == ProfitPercent(price1.price0, price2.price0)
    IN IF RatLess(profitPercent, NoiseFloor)
       THEN Null
       ELSE [pair1 |-> [address |-> price1.pairAddress,
                        exchange |-> price1.exchange,
                        price |-> price1.price0],
             pair2 |-> [address |-> price2.pairAddress,
                        exchange |-> price2.exchange,
                        price |-> price2.price0],
             profitPercent |-> profitPercent,
             token0 |-> price1.token0,
             token1 |-> price1.token1]

\* The body of the two nested loops for one (i, j): what is pushed.
PairOpportunity(prices, i, j, minProfit) ==
    IF hasSameTokenPair(prices[i], prices[j])
    THEN LET arbitrageOpp == calculateArbitrage(prices[i], prices[j])
         IN IF arbitrageOpp # Null
               /\ RatLess(Rat(minProfit, 100), arbitrageOpp.profitPercent)
            THEN <<arbitrageOpp>>
            ELSE <<>>
    ELSE <<>>

RECURSIVE InnerLoop(_, _, _, _)
InnerLoop(prices, i, j, minProfit) ==
    IF j > Len(prices)
    THEN <<>>
    ELSE PairOpportunity(prices, i, j, minProfit)
            \o InnerLoop(prices, i, j + 1, minProfit)

RECURSIVE OuterLoop(_, _, _)
OuterLoop(prices, i, minProfit) ==
    IF i > Len(prices)
    THEN <<>>
    ELSE InnerLoop(prices, i, i + 1, minProfit)
            \o OuterLoop(prices, i + 1, minProfit)

\* Array.prototype.sort((a, b) => b.profitPercent - a.profitPercent) is
\* stable: x goes behind every element that does not compare after it.
\* the comparator reversed: (a, b) => a.profitPercent - b.profitPercent
RECURSIVE SortInsertAscending(_, _)
SortInsertAscending(sorted, x) ==
    IF sorted = <<>>
    THEN <<x>>
    ELSE IF RatLess(x.profitPercent, Head(sorted).profitPercent)
         THEN <<x>> \o sorted
         ELSE <<Head(sorted)>> \o SortInsertAscending(Tail(sorted), x)

\* an unstable sort: x goes in front of the elements it ties with
RECURSIVE SortInsertBeforeTies(_, _)
SortInsertBeforeTies(sorted, x) ==
    IF sorted = <<>>
    THEN <<x>>
    ELSE IF ~RatLess(x.profitPercent, Head(sorted).profitPercent)
         THEN <<x>> \o sorted
         ELSE <<Head(sorted)>> \o SortInsertBeforeTies(Tail(sorted), x)

RECURSIVE SortInsert(_, _)
SortInsert(sorted, x) ==
    IF sorted = <<>>
    THEN <<x>>
    ELSE IF RatLess(Head(sorted).profitPercent, x.profitPercent)
         THEN <<x>> \o sorted
         ELSE <<Head(sorted)>> \o SortInsert(Tail(sorted), x)

RECURSIVE SortDescending(_)
SortDescending(opps) ==
    IF opps = <<>>
    THEN <<>>
    ELSE SortInsert(SortDescending(SubSeq(opps, 1, Len(opps) - 1)),
                    opps[Len(opps)])

\* The opportunities as far as they are computed from the cache; their
\* timestamp field is added by Stamped.
scanForArbitrageOpportunities(cache, minProfit) ==
    SortDescending(OuterLoop(cache, 1, minProfit))

\* Date.now() as calculateArbitrage may read it during one detector call.
Timestamps == {1, 2}

\* timestamp: Date.now() in every opportunity of a detector call made at now.
Stamped(opps, now) ==
    [k \in DOMAIN opps |->
        [f \in DOMAIN opps[k] \cup {"timestamp"} |->
            IF f = "timestamp" THEN now ELSE opps[k][f]]]

(***************************************************************************)
(* RiskManager                                                              *)
(***************************************************************************)
UnitsPerEth == 1000

\* ethers.parseEther('0.5')
DailyLossLimit == 500

\* ethers.parseEther('1.0')
MaxTradeSize == 1000

SuspiciousPercent == 10

NewDailyStats(day) ==
    [trades |-> 0, totalProfit |-> 0, totalLoss |-> 0, date |-> day]

\* resetDailyStats without the date test
resetDailyStatsAlways(ds, day) == NewDailyStats(day)

resetDailyStats(ds, day) ==
    IF ds.date # day THEN NewDailyStats(day) ELSE ds

\* detectSuspiciousActivity with the bound reaching below the slippage
\* tolerance: profitPercent > 1
detectSuspiciousActivityAboveOne(opportunity) ==
    RatLess(Rat(1, 1), opportunity.profitPercent)

detectSuspiciousActivity(opportunity) ==
    RatLess(Rat(SuspiciousPercent, 1), opportunity.profitPercent)

Count(risks, level) ==
    Cardinality({i \in DOMAIN risks : risks[i].level = level})

getRiskRecommendation(score) ==
    IF score >= 100 THEN "REJECT - Critical risks present"
    ELSE IF score >= 50 THEN "REJECT - High risk"
    ELSE IF score >= 25 THEN "CAUTION - Medium risk"
    ELSE IF score >= 10 THEN "PROCEED - Low risk"
    ELSE "PROCEED - Minimal risk"

Undefined == "undefined"

\* calculateRiskScore approving a score of 50
calculateRiskScoreAtMost50(risks) ==
    IF Len(risks) = 0
    THEN [approved |-> TRUE, score |-> 0, risks |-> <<>>,
          recommendation |-> Undefined]
    ELSE LET criticalCount == Count(risks, "critical")
             highCount == Count(risks, "high")
             mediumCount == Count(risks, "medium")
             score == criticalCount * 100 + highCount * 25 + mediumCount * 5
         IN [approved |-> score <= 50 /\ criticalCount = 0,
             score |-> score,
             risks |-> risks,
             recommendation |-> getRiskRecommendation(score)]

\* calculateRiskScore with the score capped at 100
calculateRiskScoreCapped(risks) ==
    IF Len(risks) = 0
    THEN [approved |-> TRUE, score |-> 0, risks |-> <<>>,
          recommendation |-> Undefined]
    ELSE LET criticalCount == Count(risks, "critical")
             highCount == Count(risks, "high")
             mediumCount == Count(risks, "medium")
             sum == criticalCount * 100 + highCount * 25 + mediumCount * 5
             score == IF sum > 100 THEN 100 ELSE sum
         IN [approved |-> score < 50 /\ criticalCount = 0,
             score |-> score,
             risks |-> risks,
             recommendation |-> getRiskRecommendation(score)]

calculateRiskScore(risks) ==
    IF Len(risks) = 0
    THEN [approved |-> TRUE, score |-> 0, risks |-> <<>>,
          recommendation |-> Undefined]
    ELSE LET criticalCount == Count(risks, "critical")
             highCount == Count(risks, "high")
             mediumCount == Count(risks, "medium")
             score == criticalCount * 100 + highCount * 25 + mediumCount * 5
         IN [approved |-> score < 50 /\ criticalCount = 0,
             score |-> score,
             risks |-> risks,
             recommendation |-> getRiskRecommendation(score)]

Risk(cond, level, reason) ==
    IF cond THEN <<[level |-> level, reason |-> reason]>> ELSE <<>>

\* assessTradeRisk flagging a gas price equal to the ceiling
assessTradeRiskGasAtCeiling(ds, opportunity, tradeAmount, gasPrice, minProfit) ==
    calculateRiskScore(
        Risk(RatLess(opportunity.profitPercent, Rat(minProfit, 100)),
             "high", "profit below threshold")
        \o Risk(RatLess(opportunity.profitPercent, Rat(MaxSlippage, 1)),
                "medium", "low profit margin")
        \o Risk(gasPrice >= MaxGasPrice, "high", "gas price exceeds limit")
        \o Risk(tradeAmount > MaxTradeSize, "high", "trade size exceeds maximum")
        \o Risk(ds.totalLoss >= DailyLossLimit, "critical", "daily loss limit")
        \o Risk(detectSuspiciousActivity(opportunity),
                "medium", "potential frontrunning"))

\* assessTradeRisk after resetDailyStats(): ds is the rolled window.
assessTradeRisk(ds, opportunity, tradeAmount, gasPrice, minProfit) ==
    calculateRiskScore(
        Risk(RatLess(opportunity.profitPercent, Rat(minProfit, 100)),
             "high", "profit below threshold")
        \o Risk(RatLess(opportunity.profitPercent, Rat(MaxSlippage, 1)),
                "medium", "low profit margin")
        \o Risk(gasPrice > MaxGasPrice, "high", "gas price exceeds limit")
        \o Risk(tradeAmount > MaxTradeSize, "high", "trade size exceeds maximum")
        \o Risk(ds.totalLoss >= DailyLossLimit, "critical", "daily loss limit")
        \o Risk(detectSuspiciousActivity(opportunity),
                "medium", "potential frontrunning"))

\* BigInt(Math.floor(x * 1e18)) for a non-negative double x (in ETH)
ToWei(x) == (x.num * UnitsPerEth) \div x.den

RatAbs(x) == Rat(Abs(x.num), x.den)

\* recordTradeResult keeping a net figure: a loss also lowers totalProfit
recordTradeResultNet(ds, profit) ==
    IF profit.num > 0
    THEN [ds EXCEPT !.trades = @ + 1, !.totalProfit = @ + ToWei(profit)]
    ELSE [ds EXCEPT !.trades = @ + 1,
                    !.totalProfit = @ - ToWei(RatAbs(profit)),
                    !.totalLoss = @ + ToWei(RatAbs(profit))]

recordTradeResult(ds, profit) ==
    IF profit.num > 0
    THEN [ds EXCEPT !.trades = @ + 1, !.totalProfit = @ + ToWei(profit)]
    ELSE [ds EXCEPT !.trades = @ + 1, !.totalLoss = @ + ToWei(RatAbs(profit))]

\* getDailyStats(): a copy of the window with the three amounts in ETH
\* (ethers.formatEther).
getDailyStats(ds) ==
    [trades |-> ds.trades,
     totalProfit |-> ds.totalProfit,
     totalLoss |-> ds.totalLoss,
     date |-> ds.date,
     totalProfitEth |-> Rat(ds.totalProfit, UnitsPerEth),
     totalLossEth |-> Rat(ds.totalLoss, UnitsPerEth),
     netProfitEth |-> Rat(ds.totalProfit - ds.totalLoss, UnitsPerEth)]

\* shouldHaltTrading halting only above the ceiling
shouldHaltTradingAbove(ds) == ds.totalLoss > DailyLossLimit

\* shouldHaltTrading after resetDailyStats()
shouldHaltTrading(ds) == ds.totalLoss >= DailyLossLimit

\* History: the breaker trips when a loss recorded in today's window brings
\* the cumulative loss to the ceiling.
TripDayAfter(ds, day) ==
    IF ds.date = day /\ ds.totalLoss >= DailyLossLimit THEN day ELSE tripDay

NoAssessment ==
    [approved |-> FALSE, score |-> -1, risks |-> <<>>,
     recommendation |-> Undefined]

(***************************************************************************)
(* Inputs                                                                   *)
(***************************************************************************)
ProfitPercentChoices == {Rat(1, 2), Rat(5, 2), Rat(5, 1), Rat(12, 1)}

TradeAmountChoices == {100, 1000, 1001}

GasPriceChoices == {20, 50, 51}

\* doubles handed to recordTradeResult, in ETH
ProfitChoices == {Rat(-1, 2), Rat(-1, 4), Rat(-1, 1000), Rat(0, 1),
                  Rat(1, 2000), Rat(2, 1000)}

(***************************************************************************)
(* The detector alone: a DexMonitor whose pairs are watched.                *)
(***************************************************************************)
BotIdle ==
    /\ isRunning = FALSE
    /\ stats = [scansCompleted |-> 0, opportunitiesFound |-> 0,
                tradesExecuted |-> 0]
    /\ inits = EmptyBag
    /\ loops = EmptyBag
    /\ exited = FALSE

RiskIdle ==
    /\ dailyStats = Null
    /\ assessment = NoAssessment
    /\ lastCall = Null
    /\ haltResult = FALSE
    /\ tripDay = -1

WatchAll(tokens) ==
    LET order == <<"0xa478", "0xb4e1", "0xc3d0", "0xd3d2">>
    IN [i \in 1..4 |-> WatchEntry(order[i], tokens[order[i]], ExchangeOf(order[i]))]

InitDetector ==
    /\ minProfitEth \in MinProfitChoices
    /\ UtilsIdle
    /\ today = 0
    /\ \E tokens \in ChainTokens : watchedPairs = WatchAll(tokens)
    /\ priceCache = <<>>
    /\ monitorId = 1
    /\ scanResult = <<>>
    /\ lastFetch = Null
    /\ lastOp = "new"
    /\ RiskIdle
    /\ BotIdle

\* DexMonitor.fetchPairPrice(pairAddress), to completion.
DetFetchPairPrice(i, reserves) ==
    /\ priceCache' = IF reserves = FetchFailed
                     THEN priceCache
                     ELSE FetchedCache(priceCache, watchedPairs[i], reserves)
    /\ scanResult' = <<>>
    /\ UNCHANGED lastFetch
    /\ lastOp' = "fetchPairPrice"
    /\ UNCHANGED <<utilVars, minProfitEth, today, watchedPairs, monitorId>>
    /\ UNCHANGED riskVars
    /\ UNCHANGED botVars

\* a detector call that empties the cache it has read
DetScanConsuming(now) ==
    /\ scanResult' = Stamped(scanForArbitrageOpportunities(priceCache,
                                                           minProfitEth), now)
    /\ priceCache' = <<>>
    /\ UNCHANGED lastFetch
    /\ lastOp' = "scanForArbitrageOpportunities"
    /\ UNCHANGED <<utilVars, minProfitEth, today, watchedPairs, monitorId>>
    /\ UNCHANGED riskVars
    /\ UNCHANGED botVars

\* DexMonitor.scanForArbitrageOpportunities(), called at time now.
DetScan(now) ==
    /\ scanResult' = Stamped(scanForArbitrageOpportunities(priceCache,
                                                           minProfitEth), now)
    /\ UNCHANGED lastFetch
    /\ lastOp' = "scanForArbitrageOpportunities"
    /\ UNCHANGED <<utilVars, minProfitEth, today, watchedPairs, priceCache, monitorId>>
    /\ UNCHANGED riskVars
    /\ UNCHANGED botVars

NextDetector ==
    \/ \E i \in DOMAIN watchedPairs :
         \E reserves \in ReserveChoices(watchedPairs[i].pairAddress)
                              \cup {FetchFailed} :
            DetFetchPairPrice(i, reserves)
    \/ \E now \in Timestamps : DetScan(now)

SpecDetector == InitDetector /\ [][NextDetector]_vars

(***************************************************************************)
(* The risk manager alone: one RiskManager and its callers.                 *)
(***************************************************************************)
MonitorIdle ==
    /\ watchedPairs = <<>>
    /\ priceCache = <<>>
    /\ monitorId = 0
    /\ scanResult = <<>>
    /\ lastFetch = Null

InitRisk ==
    /\ minProfitEth \in MinProfitChoices
    /\ UtilsIdle
    /\ today = 0
    /\ MonitorIdle
    /\ dailyStats = NewDailyStats(today)
    /\ assessment = NoAssessment
    /\ lastCall = Null
    /\ haltResult = FALSE
    /\ tripDay = -1
    /\ lastOp = "new"
    /\ BotIdle

\* RiskManager.assessTradeRisk(opportunity, tradeAmount, gasPrice)
RiskAssessTradeRisk(opportunity, tradeAmount, gasPrice) ==
    /\ dailyStats' = resetDailyStats(dailyStats, today)
    /\ assessment' = assessTradeRisk(dailyStats', opportunity, tradeAmount,
                                     gasPrice, minProfitEth)
    /\ haltResult' = FALSE
    /\ lastCall' = [opportunity |-> opportunity, tradeAmount |-> tradeAmount,
                    gasPrice |-> gasPrice]
    /\ lastOp' = "assessTradeRisk"
    /\ UNCHANGED <<utilVars, minProfitEth, today, tripDay>>
    /\ UNCHANGED monitorVars
    /\ UNCHANGED botVars

\* RiskManager.recordTradeResult(tradeAmount, profit, gasUsed)
RiskRecordTradeResult(profit) ==
    /\ dailyStats.trades < MaxTrades
    /\ dailyStats' = recordTradeResult(dailyStats, profit)
    /\ tripDay' = TripDayAfter(dailyStats', today)
    /\ assessment' = NoAssessment
    /\ haltResult' = FALSE
    /\ lastCall' = [profit |-> profit]
    /\ lastOp' = "recordTradeResult"
    /\ UNCHANGED <<utilVars, minProfitEth, today>>
    /\ UNCHANGED monitorVars
    /\ UNCHANGED botVars

\* RiskManager.shouldHaltTrading()
RiskShouldHaltTrading ==
    /\ dailyStats' = resetDailyStats(dailyStats, today)
    /\ haltResult' = shouldHaltTrading(dailyStats')
    /\ assessment' = NoAssessment
    /\ lastCall' = Null
    /\ lastOp' = "shouldHaltTrading"
    /\ UNCHANGED <<utilVars, minProfitEth, today, tripDay>>
    /\ UNCHANGED monitorVars
    /\ UNCHANGED botVars

\* RiskManager.getDailyStats()
RiskGetDailyStats ==
    /\ lastCall' = [result |-> getDailyStats(dailyStats)]
    /\ assessment' = NoAssessment
    /\ haltResult' = FALSE
    /\ lastOp' = "getDailyStats"
    /\ UNCHANGED <<utilVars, minProfitEth, today, dailyStats, tripDay>>
    /\ UNCHANGED monitorVars
    /\ UNCHANGED botVars

\* Midnight: new Date().toDateString() changes.
DateChange ==
    /\ today < MaxDay
    /\ today' = today + 1
    /\ assessment' = NoAssessment
    /\ haltResult' = FALSE
    /\ lastCall' = Null
    /\ lastOp' = "dateChange"
    /\ UNCHANGED <<utilVars, minProfitEth, dailyStats, tripDay>>
    /\ UNCHANGED monitorVars
    /\ UNCHANGED botVars

NextRisk ==
    \/ \E pp \in ProfitPercentChoices :
         \E tradeAmount \in TradeAmountChoices :
            \E gasPrice \in GasPriceChoices :
               RiskAssessTradeRisk([profitPercent |-> pp], tradeAmount, gasPrice)
    \/ \E profit \in ProfitChoices : RiskRecordTradeResult(profit)
    \/ RiskShouldHaltTrading
    \/ RiskGetDailyStats
    \/ DateChange

SpecRisk == InitRisk /\ [][NextRisk]_vars

(***************************************************************************)
(* Properties of the risk manager                                           *)
(***************************************************************************)
HasCritical(a) == \E i \in DOMAIN a.risks : a.risks[i].level = "critical"

\* C1: the assessment returned by assessTradeRisk is approved if and only if
\* its score is below 50 and it lists no critical risk; score 50 is rejected.
C1_ApprovedIffBelow50NoCritical ==
    lastOp = "assessTradeRisk" =>
        (assessment.approved <=> (assessment.score < 50 /\ ~HasCritical(assessment)))

\* An assessment of exactly 50 (two high risks, nothing else), rejected.
C1_Witness ==
    /\ lastOp = "assessTradeRisk"
    /\ assessment.score = 50
    /\ ~HasCritical(assessment)
    /\ ~assessment.approved

ScanInterval == 15000

MaxEvaluated == 3

GasLimit == 300000

\* setupWatchedPairs: popularPairs
PopularPairs == <<"0xa478", "0xb4e1">>

BotExchange == "Uniswap V2"

\* token0()/token1() of the popular pairs
BotTokens == [a \in {"0xa478", "0xb4e1"} |->
                IF a = "0xa478" THEN <<"DAI", "WETH">> ELSE <<"WETH", "DAI">>]

BotReserveChoices(a) ==
    IF a = "0xa478" THEN {<<1, 0>>, <<1, 1800>>} ELSE {<<1, 2000>>}

\* provider.getFeeData(): a gas price in gwei, or a failure
GasFailed == -1

BotGasChoices == {1, 51, GasFailed}

\* recordTradeResult called on bot.riskManager from outside the scan loop
LossChoices == {Rat(-1, 2)}

\* a trade size above the per-trade ceiling: ethers.parseEther('2')
TradeAmountTwoEth == 2 * UnitsPerEth

\* ethers.parseEther('0.1')
DefaultTradeAmount == UnitsPerEth \div 10

\* the estimate for a trade of 1 ETH: (opportunity.profitPercent / 100) * 1
EstimatedProfitOfOneEth(opportunity) ==
    Rat(opportunity.profitPercent.num, opportunity.profitPercent.den * 100)

\* (opportunity.profitPercent / 100) * 0.1
EstimatedProfitEth(opportunity) ==
    Rat(opportunity.profitPercent.num, opportunity.profitPercent.den * 1000)

\* estimateGasCost, in ETH: gasLimit * gasPrice, or the 0.01 ETH fallback
GasCostEth(gasPrice) ==
    IF gasPrice = GasFailed
    THEN Rat(1, 100)
    ELSE Rat((GasLimit * gasPrice) \div 100000, 10000)

\* isArbitrageProfitable asking for a net profit above the minimum
isArbitrageProfitableStrict(opportunity, gasPrice, minProfit) ==
    RatLess(Rat(minProfit, 10000),
            RatSub(EstimatedProfitEth(opportunity), GasCostEth(gasPrice)))

isArbitrageProfitable(opportunity, gasPrice, minProfit) ==
    ~RatLess(RatSub(EstimatedProfitEth(opportunity), GasCostEth(gasPrice)),
             Rat(minProfit, 10000))

\* An entry of the results of Promise.allSettled that has not settled yet.
Unsettled == [settled |-> FALSE]

NewLoop ==
    [pc |-> "new", pending |-> <<>>, results |-> <<>>,
     opportunities |-> <<>>, i |-> 0, outcome |-> "none", delay |-> 0,
     halted |-> FALSE, threw |-> FALSE]

InCycle(loop) == loop.pc \in {"fetching", "evaluating", "executing"}

\* The activations are kept as bags: an activation has no identity beyond
\* its own state, and one that has returned is gone.
Replace(bag, r, r2) == (bag (-) SetToBag({r})) (+) SetToBag({r2})

Remove(bag, r) == bag (-) SetToBag({r})

BagMap(bag, f) ==
    [s \in {f[r] : r \in DOMAIN bag} |->
        BagCardinality([r \in {q \in DOMAIN bag : f[q] = s} |-> bag[r]])]

NumLoops(bag, pcs) ==
    BagCardinality([r \in {q \in DOMAIN bag : q.pc \in pcs} |-> bag[r]])

\* Cycles that have gone past the halt check: counted ones and those still
\* waiting for their fetches.
CyclesBegun == stats.scansCompleted + NumLoops(loops, {"fetching"})

\* Cycles begun or owed to a start() that is still initializing: every
\* start() runs a first cycle.
CyclesClaimed == CyclesBegun + BagCardinality(inits)

\* A call in flight on a DexMonitor that this.monitor no longer refers to.
Dropped == 0

DroppedFetch(f) == [f EXCEPT !.monitorId = Dropped]

DroppedLoop(loop) ==
    [loop EXCEPT !.pending = [k \in DOMAIN @ |-> DroppedFetch(@[k])]]

DroppedInit(init) == [init EXCEPT !.monitorId = Dropped]

\* The end of scanForOpportunities seen from monitorLoop: the cycle returns
\* and the loop sleeps scanInterval, or it throws (logger/console output
\* failing) and the catch block sleeps twice as long.
CycleEndNoBackoff(loop, err) ==
    [NewLoop EXCEPT !.pc = "sleeping",
                    !.delay = ScanInterval,
                    !.threw = err]

CycleEnd(loop, err) ==
    [NewLoop EXCEPT !.pc = "sleeping",
                    !.delay = IF err THEN ScanInterval * 2 ELSE ScanInterval,
                    !.threw = err]

\* scanForOpportunities up to its first await.
CycleBeginNoHaltCheck(loop, ds, watched, monitor, day) ==
    [loop |-> [NewLoop EXCEPT
                  !.pc = "fetching",
                  !.pending = [k \in DOMAIN watched |->
                                  [pair |-> watched[k], monitorId |-> monitor]],
                  !.results = [k \in DOMAIN watched |-> Unsettled]],
     dailyStats |-> resetDailyStats(ds, day)]

CycleBegin(loop, ds, watched, monitor, day) ==
    LET rolled == resetDailyStats(ds, day)
    IN IF shouldHaltTrading(rolled)
       THEN [loop |-> [NewLoop EXCEPT !.pc = "sleeping",
                                      !.delay = ScanInterval,
                                      !.halted = TRUE],
             dailyStats |-> rolled]
       ELSE [loop |-> [NewLoop EXCEPT
                          !.pc = "fetching",
                          !.pending = [k \in DOMAIN watched |->
                                          [pair |-> watched[k],
                                           monitorId |-> monitor]],
                          !.results = [k \in DOMAIN watched |-> Unsettled]],
             dailyStats |-> rolled]

\* the for loop running over every opportunity
AdvanceAll(loop, err) ==
    IF loop.i < Len(loop.opportunities)
    THEN [loop EXCEPT !.pc = "evaluating", !.i = @ + 1]
    ELSE CycleEnd(loop, err)

\* The for loop over the top opportunities: next index, or the cycle ends.
Advance(loop, err) ==
    IF loop.i < MaxEvaluated /\ loop.i < Len(loop.opportunities)
    THEN [loop EXCEPT !.pc = "evaluating", !.i = @ + 1]
    ELSE CycleEnd(loop, err)

\* evaluateAndExecuteOpportunity has returned: how it went, and on with
\* the for loop.
Evaluated(loop, outcome, err) ==
    Advance([loop EXCEPT !.outcome = outcome], err)

\* an error of the evaluation leaving scanForOpportunities
ErrorPropagates(loop, err) == CycleEnd(loop, TRUE)

\* The catch block of evaluateAndExecuteOpportunity: log, return false.
ErrorCaught(loop, err) == Evaluated(loop, "error", err)

\* The execution stage of an evaluation: executeArbitrage returns a result
\* with success or null (no wallet, insufficient balance, an error it
\* caught), or the stage throws (the output around the call failing).
ExecutionResults == {"success", "null", "throws"}

Init ==
    /\ minProfitEth = DefaultMinProfitEth
    /\ UtilsIdle
    /\ today = 0
    /\ MonitorIdle
    /\ RiskIdle
    /\ lastOp = "new"
    /\ BotIdle

\* MEVBot.start() up to the first await of initialize(): this.monitor is a
\* new DexMonitor, and what is in flight on the old one stays with the old.
Start ==
    /\ ~exited
    /\ ~isRunning
    /\ CyclesClaimed < MaxScans
    /\ monitorId' = monitorId + 1
    /\ watchedPairs' = <<>>
    /\ priceCache' = <<>>
    /\ inits' = BagMap(inits, [init \in DOMAIN inits |-> DroppedInit(init)])
                   (+) SetToBag({[k |-> 1, monitorId |-> monitorId + 1]})
    /\ loops' = BagMap(loops, [l \in DOMAIN loops |-> DroppedLoop(l)])
    /\ UNCHANGED <<utilVars, minProfitEth, today, scanResult, lastFetch, lastOp, isRunning, stats,
                   exited>>
    /\ UNCHANGED riskVars

\* An addWatchPair of an initialize() completes; initialize() goes on to the
\* next pair or, after the last, start() sets isRunning and enters
\* monitorLoop(), which runs up to the first await of its first cycle.
AddWatchPairDone(init, ok) ==
    LET address == PopularPairs[init.k]
        watched == IF ok /\ init.monitorId = monitorId
                   THEN MapSet(watchedPairs,
                               WatchEntry(address, BotTokens[address], BotExchange))
                   ELSE watchedPairs
        begun == CycleBegin(NewLoop, NewDailyStats(today), watched, monitorId, today)
    IN /\ ~exited
       /\ init \in DOMAIN inits
       /\ watchedPairs' = watched
       /\ IF init.k < Len(PopularPairs)
          THEN /\ inits' = Replace(inits, init,
                                   [k |-> init.k + 1, monitorId |-> monitorId])
               /\ UNCHANGED <<dailyStats, isRunning, loops>>
          ELSE /\ begun.loop.halted \/ CyclesBegun < MaxScans
               /\ inits' = Remove(inits, init)
               /\ dailyStats' = begun.dailyStats
               /\ isRunning' = TRUE
               /\ loops' = loops (+) SetToBag({begun.loop})
       /\ UNCHANGED <<utilVars, minProfitEth, today, priceCache, monitorId, scanResult, lastFetch,
                      assessment, haltResult, lastCall, tripDay, lastOp, stats, exited>>

\* The setTimeout of the loop fires: the while test of monitorLoop and, when
\* it holds, the next cycle up to its first await.
LoopTop(l) ==
    LET begun == CycleBegin(l, dailyStats, watchedPairs, monitorId, today)
    IN /\ ~exited
       /\ l \in DOMAIN loops
       /\ l.pc = "sleeping"
       /\ IF isRunning
          THEN /\ begun.loop.halted \/ CyclesBegun < MaxScans
               /\ loops' = Replace(loops, l, begun.loop)
               /\ dailyStats' = begun.dailyStats
          ELSE /\ loops' = Remove(loops, l)
               /\ UNCHANGED dailyStats
       /\ UNCHANGED <<utilVars, minProfitEth, today, assessment, haltResult, lastCall, tripDay,
                      lastOp, isRunning, stats, inits, exited>>
       /\ UNCHANGED monitorVars

\* The cache after one fetchPairPrice call has settled: a call writes to
\* the DexMonitor it was made on, and a failed call writes nothing.
SettledCacheEvicting(cache, fetch, reserves, monitor) ==
    IF reserves = FetchFailed
    THEN SelectSeq(cache, LAMBDA e : e.pairAddress # fetch.pair.pairAddress)
    ELSE IF fetch.monitorId = monitor
         THEN FetchedCache(cache, fetch.pair, reserves)
         ELSE cache

SettledCache(cache, fetch, reserves, monitor) ==
    IF reserves # FetchFailed /\ fetch.monitorId = monitor
    THEN FetchedCache(cache, fetch.pair, reserves)
    ELSE cache

\* What the call resolves to: fetchPairPrice catches its errors.
SettledValue(fetch, reserves) ==
    IF reserves = FetchFailed THEN Null ELSE FetchedValue(fetch.pair, reserves)

\* Promise.all instead of Promise.allSettled: the first failure ends the wait
AllSettledFailFast(results) ==
    \/ \E k \in DOMAIN results : results[k] = Null
    \/ \A k \in DOMAIN results : results[k] # Unsettled

\* Promise.allSettled resolves when every call has settled.
AllSettled(results) == \A k \in DOMAIN results : results[k] # Unsettled

\* results.forEach: the fulfilled calls with a value.
SuccessfulScans(results) ==
    Cardinality({k \in DOMAIN results :
                    results[k] # Unsettled /\ results[k] # Null})

\* the detector run whatever the count
DetectorRunsAlways(successfulScans) == TRUE

\* if (successfulScans > 0)
DetectorRuns(successfulScans) == successfulScans > 0

\* scanForOpportunities from the resolution of Promise.allSettled to the
\* first evaluation, or to the end of the cycle: count, detect, select.
Joined(l, results, cache, err) ==
    LET opps == IF DetectorRuns(SuccessfulScans(results))
                THEN scanForArbitrageOpportunities(cache, minProfitEth)
                ELSE <<>>
    IN [loop |-> IF Len(opps) > 0
                 THEN [l EXCEPT !.pc = "evaluating", !.i = 1,
                                !.pending = <<>>,
                                !.results = results,
                                !.opportunities = opps]
                 ELSE CycleEnd(l, err),
        stats |-> [stats EXCEPT !.scansCompleted = @ + 1,
                                !.opportunitiesFound = @ + Len(opps)]]

\* One fetchPairPrice call of the cycle settles; with the last one
\* Promise.allSettled resolves and the cycle goes on.
FetchSettle(l, k, reserves, err) ==
    LET fetch == l.pending[k]
        cache == SettledCache(priceCache, fetch, reserves, monitorId)
        results == [l.results EXCEPT ![k] = SettledValue(fetch, reserves)]
        joined == Joined(l, results, cache, err)
    IN /\ ~exited
       /\ l \in DOMAIN loops
       /\ l.pc = "fetching"
       /\ k \in DOMAIN l.pending
       /\ l.results[k] = Unsettled
       /\ priceCache' = cache
       /\ IF AllSettled(results)
          THEN /\ loops' = Replace(loops, l, joined.loop)
               /\ stats' = joined.stats
          ELSE /\ ~err
               /\ loops' = Replace(loops, l, [l EXCEPT !.results = results])
               /\ UNCHANGED stats
       /\ UNCHANGED <<utilVars, minProfitEth, today, watchedPairs, monitorId, scanResult,
                      lastFetch, lastOp, isRunning, inits, exited>>
       /\ UNCHANGED riskVars

\* Promise.allSettled of a cycle with nothing to fetch resolves.
ScanJoin(l, err) ==
    LET joined == Joined(l, l.results, priceCache, err)
    IN /\ ~exited
       /\ l \in DOMAIN loops
       /\ l.pc = "fetching"
       /\ l.results = <<>>
       /\ loops' = Replace(loops, l, joined.loop)
       /\ stats' = joined.stats
       /\ UNCHANGED <<utilVars, minProfitEth, today, lastOp, isRunning, inits, exited>>
       /\ UNCHANGED monitorVars
       /\ UNCHANGED riskVars

\* The console.log / logger.arbitrage in front of an evaluation throws.
ReportThrows(l) ==
    /\ ~exited
    /\ l \in DOMAIN loops
    /\ l.pc = "evaluating"
    /\ loops' = Replace(loops, l, CycleEnd(l, TRUE))
    /\ UNCHANGED <<utilVars, minProfitEth, today, lastOp, isRunning, stats, inits, exited>>
    /\ UNCHANGED monitorVars
    /\ UNCHANGED riskVars

\* evaluateAndExecuteOpportunity up to the risk decision.
EvaluateRisk(l, gasPrice, err) ==
    LET opp == l.opportunities[l.i]
        rolled == resetDailyStats(dailyStats, today)
        risk == assessTradeRisk(rolled, opp, DefaultTradeAmount, gasPrice,
                                minProfitEth)
    IN /\ ~exited
       /\ l \in DOMAIN loops
       /\ l.pc = "evaluating"
       /\ IF gasPrice = GasFailed
          THEN /\ loops' = Replace(loops, l, ErrorCaught(l, err))
               /\ UNCHANGED dailyStats
          ELSE /\ dailyStats' = rolled
               /\ loops' = Replace(loops, l,
                              IF risk.approved
                              THEN [l EXCEPT !.pc = "executing"]
                              ELSE Evaluated(l, "rejected", err))
       /\ UNCHANGED <<utilVars, minProfitEth, today, assessment, haltResult, lastCall, tripDay,
                      lastOp, isRunning, stats, inits, exited>>
       /\ UNCHANGED monitorVars

\* evaluateAndExecuteOpportunity from the profitability check on.
EvaluateExecute(l, gasPrice, result, err) ==
    LET opp == l.opportunities[l.i]
        profitable == isArbitrageProfitable(opp, gasPrice, minProfitEth)
        executed == profitable /\ result = "success"
    IN /\ ~exited
       /\ l \in DOMAIN loops
       /\ l.pc = "executing"
       /\ dailyStats' = IF executed
                        THEN recordTradeResult(dailyStats, EstimatedProfitEth(opp))
                        ELSE dailyStats
       /\ tripDay' = TripDayAfter(dailyStats', today)
       /\ stats' = IF executed
                   THEN [stats EXCEPT !.tradesExecuted = @ + 1]
                   ELSE stats
       /\ loops' = Replace(loops, l,
                      IF ~profitable THEN Evaluated(l, "unprofitable", err)
                      ELSE IF result = "throws" THEN ErrorCaught(l, err)
                      ELSE IF result = "null" THEN Evaluated(l, "failed", err)
                      ELSE Evaluated(l, "executed", err))
       /\ UNCHANGED <<utilVars, minProfitEth, today, assessment, haltResult, lastCall, lastOp,
                      isRunning, inits, exited>>
       /\ UNCHANGED monitorVars

\* MEVBot.stop()
Stop ==
    /\ ~exited
    /\ isRunning
    /\ isRunning' = FALSE
    /\ UNCHANGED <<utilVars, minProfitEth, today, lastOp, stats, inits, loops, exited>>
    /\ UNCHANGED monitorVars
    /\ UNCHANGED riskVars

\* The SIGINT handler: bot.stop(), then process.exit(0).  The process and
\* all it held are gone.
Sigint ==
    /\ ~exited
    /\ exited' = TRUE
    /\ isRunning' = FALSE
    /\ stats' = [scansCompleted |-> 0, opportunitiesFound |-> 0,
                 tradesExecuted |-> 0]
    /\ inits' = EmptyBag
    /\ loops' = EmptyBag
    /\ watchedPairs' = <<>>
    /\ priceCache' = <<>>
    /\ monitorId' = 0
    /\ dailyStats' = Null
    /\ tripDay' = -1
    /\ today' = 0
    /\ UNCHANGED <<scanResult, lastFetch, assessment, haltResult, lastCall>>
    /\ UNCHANGED <<utilVars, minProfitEth, lastOp>>

\* Midnight, seen by the bot.
BotDateChange ==
    /\ ~exited
    /\ today < MaxDay
    /\ today' = today + 1
    /\ UNCHANGED <<utilVars, minProfitEth, lastOp>>
    /\ UNCHANGED monitorVars
    /\ UNCHANGED riskVars
    /\ UNCHANGED botVars

\* bot.riskManager.recordTradeResult(amount, loss, gasUsed) by an embedder.
RecordLoss(profit) ==
    /\ ~exited
    /\ dailyStats # Null
    /\ dailyStats.totalLoss < DailyLossLimit
    /\ dailyStats' = recordTradeResult(dailyStats, profit)
    /\ tripDay' = TripDayAfter(dailyStats', today)
    /\ UNCHANGED <<utilVars, minProfitEth, today, assessment, haltResult, lastCall, lastOp>>
    /\ UNCHANGED monitorVars
    /\ UNCHANGED botVars

Next ==
    \/ Start
    \/ \E init \in DOMAIN inits : \E ok \in BOOLEAN : AddWatchPairDone(init, ok)
    \/ \E l \in DOMAIN loops : LoopTop(l)
    \/ \E l \in DOMAIN loops :
         \E k \in DOMAIN l.pending :
            \E reserves \in BotReserveChoices(l.pending[k].pair.pairAddress)
                                 \cup {FetchFailed} :
               \E err \in BOOLEAN : FetchSettle(l, k, reserves, err)
    \/ \E l \in DOMAIN loops : \E err \in BOOLEAN : ScanJoin(l, err)
    \/ \E l \in DOMAIN loops : ReportThrows(l)
    \/ \E l \in DOMAIN loops :
         \E gasPrice \in BotGasChoices : \E err \in BOOLEAN :
            EvaluateRisk(l, gasPrice, err)
    \/ \E l \in DOMAIN loops :
         \E gasPrice \in BotGasChoices :
            \E result \in ExecutionResults : \E err \in BOOLEAN :
               EvaluateExecute(l, gasPrice, result, err)
    \/ Stop
    \/ Sigint
    \/ BotDateChange
    \/ \E profit \in LossChoices : RecordLoss(profit)

Spec == Init /\ [][Next]_vars

\* The program of index.js: one bot, started once.
StartFirst ==
    /\ monitorId = 0
    /\ Start

NextLoop ==
    \/ StartFirst
    \/ \E init \in DOMAIN inits : \E ok \in BOOLEAN : AddWatchPairDone(init, ok)
    \/ \E l \in DOMAIN loops : LoopTop(l)
    \/ \E l \in DOMAIN loops :
         \E k \in DOMAIN l.pending :
            \E reserves \in BotReserveChoices(l.pending[k].pair.pairAddress)
                                 \cup {FetchFailed} :
               \E err \in BOOLEAN : FetchSettle(l, k, reserves, err)
    \/ \E l \in DOMAIN loops : \E err \in BOOLEAN : ScanJoin(l, err)
    \/ \E l \in DOMAIN loops : ReportThrows(l)
    \/ \E l \in DOMAIN loops :
         \E gasPrice \in BotGasChoices : \E err \in BOOLEAN :
            EvaluateRisk(l, gasPrice, err)
    \/ \E l \in DOMAIN loops :
         \E gasPrice \in BotGasChoices :
            \E result \in ExecutionResults : \E err \in BOOLEAN :
               EvaluateExecute(l, gasPrice, result, err)
    \/ Stop
    \/ Sigint
    \/ BotDateChange
    \/ \E profit \in LossChoices : RecordLoss(profit)

SpecLoop == Init /\ [][NextLoop]_vars

\* The same program left to itself: `node src/index.js`, where nothing but
\* the scan loop calls the risk manager.
NextUnattended ==
    \/ StartFirst
    \/ \E init \in DOMAIN inits : \E ok \in BOOLEAN : AddWatchPairDone(init, ok)
    \/ \E l \in DOMAIN loops : LoopTop(l)
    \/ \E l \in DOMAIN loops :
         \E k \in DOMAIN l.pending :
            \E reserves \in BotReserveChoices(l.pending[k].pair.pairAddress)
                                 \cup {FetchFailed} :
               \E err \in BOOLEAN : FetchSettle(l, k, reserves, err)
    \/ \E l \in DOMAIN loops : \E err \in BOOLEAN : ScanJoin(l, err)
    \/ \E l \in DOMAIN loops : ReportThrows(l)
    \/ \E l \in DOMAIN loops :
         \E gasPrice \in BotGasChoices : \E err \in BOOLEAN :
            EvaluateRisk(l, gasPrice, err)
    \/ \E l \in DOMAIN loops :
         \E gasPrice \in BotGasChoices :
            \E result \in ExecutionResults : \E err \in BOOLEAN :
               EvaluateExecute(l, gasPrice, result, err)
    \/ Stop
    \/ Sigint
    \/ BotDateChange

SpecUnattended == Init /\ [][NextUnattended]_vars

\* bot.stop() called by the owner of a bot whose start() has been called,
\* whatever start() has got to; the call is remembered in lastOp.
StopCall ==
    /\ ~exited
    /\ monitorId # 0
    /\ isRunning' = FALSE
    /\ lastOp' = "stop"
    /\ UNCHANGED <<utilVars, minProfitEth, today, stats, inits, loops, exited>>
    /\ UNCHANGED monitorVars
    /\ UNCHANGED riskVars

\* What the event loop runs of a bot: the continuations of start() and of
\* monitorLoop() and the timer of its sleep.
LoopSteps ==
    \/ \E init \in DOMAIN inits : \E ok \in BOOLEAN : AddWatchPairDone(init, ok)
    \/ \E l \in DOMAIN loops : LoopTop(l)
    \/ \E l \in DOMAIN loops :
         \E k \in DOMAIN l.pending :
            \E reserves \in BotReserveChoices(l.pending[k].pair.pairAddress)
                                 \cup {FetchFailed} :
               \E err \in BOOLEAN : FetchSettle(l, k, reserves, err)
    \/ \E l \in DOMAIN loops : \E err \in BOOLEAN : ScanJoin(l, err)
    \/ \E l \in DOMAIN loops : ReportThrows(l)
    \/ \E l \in DOMAIN loops :
         \E gasPrice \in BotGasChoices : \E err \in BOOLEAN :
            EvaluateRisk(l, gasPrice, err)
    \/ \E l \in DOMAIN loops :
         \E gasPrice \in BotGasChoices :
            \E result \in ExecutionResults : \E err \in BOOLEAN :
               EvaluateExecute(l, gasPrice, result, err)

NextStop ==
    \/ StartFirst
    \/ LoopSteps
    \/ StopCall
    \/ BotDateChange

\* A bot started once and stopped by its owner.  Pending continuations and
\* timers are always run in the end.
SpecStop == Init /\ [][NextStop]_vars /\ WF_vars(LoopSteps)

\* A DexMonitor watching the pairs setupWatchedPairs adds, each poll
\* remembered with what the pair contract reported.
InitCache ==
    /\ minProfitEth \in MinProfitChoices
    /\ UtilsIdle
    /\ today = 0
    /\ watchedPairs = [k \in DOMAIN PopularPairs |->
                          WatchEntry(PopularPairs[k], BotTokens[PopularPairs[k]],
                                     BotExchange)]
    /\ priceCache = <<>>
    /\ monitorId = 1
    /\ scanResult = <<>>
    /\ lastFetch = Null
    /\ lastOp = "new"
    /\ RiskIdle
    /\ BotIdle

\* DexMonitor.fetchPairPrice(pairAddress), to completion.
CacheFetchPairPrice(i, reserves) ==
    /\ priceCache' = IF reserves = FetchFailed
                     THEN priceCache
                     ELSE FetchedCache(priceCache, watchedPairs[i], reserves)
    /\ scanResult' = <<>>
    /\ lastFetch' = [pairAddress |-> watchedPairs[i].pairAddress,
                     reserves |-> reserves,
                     value |-> IF reserves = FetchFailed
                               THEN Null
                               ELSE FetchedValue(watchedPairs[i], reserves)]
    /\ lastOp' = "fetchPairPrice"
    /\ UNCHANGED <<utilVars, minProfitEth, today, watchedPairs, monitorId>>
    /\ UNCHANGED riskVars
    /\ UNCHANGED botVars

NextCache ==
    \/ \E i \in DOMAIN watchedPairs :
         \E reserves \in ReserveChoices(watchedPairs[i].pairAddress)
                              \cup {FetchFailed} :
            CacheFetchPairPrice(i, reserves)
    \/ \E now \in Timestamps : DetScan(now)

SpecCache == InitCache /\ [][NextCache]_vars

(***************************************************************************)
(* The evaluation stage of one cycle, on a bot whose embedder has added     *)
(* pools to bot.monitor: the cycle has just joined its fetches.             *)
(***************************************************************************)
EvalPools == <<"0xa478", "0xb4e1", "0xc3d0", "0xd3d2">>

EvalWatched ==
    [k \in DOMAIN EvalPools |->
        WatchEntry(EvalPools[k],
                   IF EvalPools[k] \in DOMAIN BotTokens
                   THEN BotTokens[EvalPools[k]]
                   ELSE <<"DAI", "WETH">>,
                   ExchangeOf(EvalPools[k]))]

\* The caches a cycle whose fetches all returned an observation leaves.
EvalCaches ==
    {[k \in DOMAIN EvalPools |-> PriceData(EvalWatched[k], reserves[k])] :
        reserves \in {rs \in [DOMAIN EvalPools -> (0..1) \X {1800, 1900, 1999, 2000, 2001}] :
                         \A k \in DOMAIN EvalPools :
                            /\ rs[k] \in ReserveChoices(EvalPools[k])
                            /\ FetchedValue(EvalWatched[k], rs[k]) # Null}}

InitEval ==
    \E cache \in EvalCaches :
       LET begun == CycleBegin(NewLoop, NewDailyStats(0), EvalWatched, 1, 0)
           opps == scanForArbitrageOpportunities(cache, DefaultMinProfitEth)
       IN /\ minProfitEth = DefaultMinProfitEth
          /\ UtilsIdle
          /\ today = 0
          /\ watchedPairs = EvalWatched
          /\ priceCache = cache
          /\ monitorId = 1
          /\ scanResult = <<>>
          /\ lastFetch = Null
          /\ lastOp = "new"
          /\ dailyStats = begun.dailyStats
          /\ assessment = NoAssessment
          /\ lastCall = Null
          /\ haltResult = FALSE
          /\ tripDay = -1
          /\ isRunning = TRUE
          /\ stats = [scansCompleted |-> 1, opportunitiesFound |-> Len(opps),
                      tradesExecuted |-> 0]
          /\ inits = EmptyBag
          /\ loops = SetToBag({IF Len(opps) > 0
                               THEN [begun.loop EXCEPT
                                        !.pc = "evaluating", !.i = 1,
                                        !.pending = <<>>,
                                        !.results = cache,
                                        !.opportunities = opps]
                               ELSE CycleEnd(begun.loop, FALSE)})
          /\ exited = FALSE

NextEval ==
    \/ \E l \in DOMAIN loops :
         \E gasPrice \in BotGasChoices : EvaluateRisk(l, gasPrice, FALSE)
    \/ \E l \in DOMAIN loops :
         \E gasPrice \in BotGasChoices :
            \E result \in ExecutionResults :
               EvaluateExecute(l, gasPrice, result, FALSE)

SpecEval == InitEval /\ [][NextEval]_vars

(***************************************************************************)
(* ArbitrageExecutor alone: the execution gate and executeArbitrage.        *)
(***************************************************************************)
\* What the balance query of checkBalance comes back with.
BalanceChoices == {"enough", "short", "fails"}

\* checkBalance(tokenAddress, requiredAmount): one balance query on the
\* chain (provider.getBalance or balanceOf); an error counts as false.
checkBalance(balance) == [value |-> balance = "enough", chainCalls |-> 1]

\* performArbitrageTrade: the simulated result.
performArbitrageTrade(opportunity, tradeAmount, now) ==
    [success |-> TRUE,
     tradeAmount |-> tradeAmount,
     estimatedProfit |-> opportunity.profitPercent,
     gasUsed |-> GasLimit,
     exchangeUsed |-> <<opportunity.pair1.exchange, opportunity.pair2.exchange>>,
     timestamp |-> now]

\* executeArbitrage(opportunity): the value returned and the number of
\* queries it sent to the chain.
executeArbitrage(opportunity, wallet, balance, now) ==
    IF ~wallet
    THEN [result |-> Null, chainCalls |-> 0]
    ELSE LET hasEnoughBalance == checkBalance(balance)
         IN [result |-> IF hasEnoughBalance.value
                        THEN performArbitrageTrade(opportunity,
                                                   DefaultTradeAmount, now)
                        ELSE Null,
             chainCalls |-> hasEnoughBalance.chainCalls]

\* reserve1 of two pools with reserve0 = 1: profitPercent 5, 10, 10.3, 10.6
\* and 25.
GatePrices ==
    {<<1950, 2050>>, <<1900, 2100>>, <<1897, 2103>>, <<1894, 2106>>,
     <<1750, 2250>>}

GateOpportunities ==
    {Stamped(<<calculateArbitrage(
                  PriceData(WatchEntry("0xa478", <<"DAI", "WETH">>, "Uniswap V2"),
                            <<1, prices[1]>>),
                  PriceData(WatchEntry("0xc3d0", <<"WETH", "DAI">>, "SushiSwap"),
                            <<1, prices[2]>>))>>, 1)[1] : prices \in GatePrices}

\* provider.getFeeData() as the executor sees it: gwei (0 from a node that
\* charges no fee), or a failure
GateGasChoices == {0, 1, 20, 51, GasFailed}

InitExecutor ==
    /\ minProfitEth \in MinProfitChoices
    /\ UtilsIdle
    /\ today = 0
    /\ MonitorIdle
    /\ RiskIdle
    /\ lastOp = "new"
    /\ BotIdle

\* ArbitrageExecutor.isArbitrageProfitable(opportunity)
ExecIsArbitrageProfitable(opportunity, gasPrice) ==
    /\ lastCall' = [opportunity |-> opportunity, gasPrice |-> gasPrice,
                    result |-> isArbitrageProfitable(opportunity, gasPrice,
                                                     minProfitEth)]
    /\ lastOp' = "isArbitrageProfitable"
    /\ UNCHANGED <<utilVars, minProfitEth, today, dailyStats, assessment, haltResult,
                   tripDay>>
    /\ UNCHANGED monitorVars
    /\ UNCHANGED botVars

\* ArbitrageExecutor.executeArbitrage(opportunity)
ExecExecuteArbitrage(opportunity, wallet, balance, now) ==
    LET done == executeArbitrage(opportunity, wallet, balance, now)
    IN /\ lastCall' = [opportunity |-> opportunity, wallet |-> wallet,
                       result |-> done.result, chainCalls |-> done.chainCalls]
       /\ lastOp' = "executeArbitrage"
       /\ UNCHANGED <<utilVars, minProfitEth, today, dailyStats, assessment, haltResult,
                      tripDay>>
       /\ UNCHANGED monitorVars
       /\ UNCHANGED botVars

NextExecutor ==
    \/ \E opportunity \in GateOpportunities : \E gasPrice \in GateGasChoices :
          ExecIsArbitrageProfitable(opportunity, gasPrice)
    \/ \E opportunity \in GateOpportunities : \E wallet \in BOOLEAN :
          \E balance \in BalanceChoices : \E now \in Timestamps :
             ExecExecuteArbitrage(opportunity, wallet, balance, now)

SpecExecutor == InitExecutor /\ [][NextExecutor]_vars

(***************************************************************************)
(* Web3Utils.retry(fn, maxRetries, delayMs)                                 *)
(***************************************************************************)
\* What an invocation of fn settles with: a value, or one of two errors.
FnOutcomes == {"ok", "ETIMEDOUT", "ECONNRESET"}

DelayChoices == {1, 500, 1000}

\* a backoff that does not grow
NextDelaySame(delayMs) == delayMs

\* delayMs *= 2
NextDelay(delayMs) == delayMs * 2

\* i === maxRetries - 1
IsLastAttempt(i, maxRetries) == i = maxRetries - 1

\* The for test and, when it holds, the call of fn in the try block; when
\* it fails the function falls off its end and returns undefined.
RetryAttempt(r) ==
    IF r.i < r.maxRetries
    THEN [r EXCEPT !.pc = "calling", !.invoked = @ + 1]
    ELSE [r EXCEPT !.pc = "returned", !.result = [undefined |-> TRUE]]

UtilsRest ==
    /\ UNCHANGED <<minProfitEth, today, lastOp>>
    /\ UNCHANGED monitorVars
    /\ UNCHANGED riskVars
    /\ UNCHANGED botVars

InitRetry ==
    /\ minProfitEth = DefaultMinProfitEth
    /\ UtilsIdle
    /\ today = 0
    /\ MonitorIdle
    /\ RiskIdle
    /\ lastOp = "new"
    /\ BotIdle

\* Web3Utils.retry(fn, maxRetries, delayMs) up to its first await.
RetryCall(maxRetries, delayMs) ==
    /\ retry = Null
    /\ retry' = RetryAttempt([pc |-> "new", maxRetries |-> maxRetries,
                              delayArg |-> delayMs,
                              delayMs |-> delayMs, i |-> 0, invoked |-> 0,
                              outcomes |-> <<>>, waits |-> <<>>, result |-> Null])
    /\ UNCHANGED limiter
    /\ UtilsRest

\* The promise of fn() settles: return its value, or in the catch block
\* rethrow on the last attempt and otherwise start the timer.
RetryFnSettles(outcome) ==
    /\ retry # Null
    /\ retry.pc = "calling"
    /\ retry' =
          LET r == [retry EXCEPT !.outcomes = Append(@, outcome)]
          IN IF outcome = "ok"
             THEN [r EXCEPT !.pc = "returned",
                            !.result = [value |-> r.invoked]]
             ELSE IF IsLastAttempt(r.i, r.maxRetries)
             THEN [r EXCEPT !.pc = "thrown",
                            !.result = [error |-> outcome, of |-> r.invoked]]
             ELSE [r EXCEPT !.pc = "waiting", !.waits = Append(@, r.delayMs)]
    /\ UNCHANGED limiter
    /\ UtilsRest

\* The timer fires: double the delay, i++, and round the loop.
RetryTimerFires ==
    /\ retry # Null
    /\ retry.pc = "waiting"
    /\ retry' = RetryAttempt([retry EXCEPT !.delayMs = NextDelay(@),
                                           !.i = @ + 1])
    /\ UNCHANGED limiter
    /\ UtilsRest

RetrySteps ==
    \/ \E outcome \in FnOutcomes : RetryFnSettles(outcome)
    \/ RetryTimerFires

NextRetry ==
    \/ \E maxRetries \in 0..MaxRetries : \E delayMs \in DelayChoices :
          RetryCall(maxRetries, delayMs)
    \/ RetrySteps

\* Every invocation of fn settles and every timer fires.
SpecRetry == InitRetry /\ [][NextRetry]_vars /\ WF_vars(RetrySteps)

(***************************************************************************)
(* Web3Utils.createRateLimiter(maxCalls, windowMs).  Time is kept as ages:  *)
(* an entry of the calls array is held as now - entry, which stops         *)
(* mattering once it has reached windowMs.                                  *)
(***************************************************************************)
Callers == {"a", "b"}

MaxCallsChoices == {0, 1, 2}

WindowChoices == {2, 3}

Min(x, y) == IF x < y THEN x ELSE y

\* calls[0] <= now - windowMs
Expired(age, windowMs) == age >= windowMs

\* while (calls.length > 0 && calls[0] <= now - windowMs) calls.shift()
RECURSIVE Prune(_, _)
Prune(calls, windowMs) ==
    IF Len(calls) > 0 /\ Expired(Head(calls), windowMs)
    THEN Prune(Tail(calls), windowMs)
    ELSE calls

\* a limiter that lets one call more through
FullAbove(calls, maxCalls) == Len(calls) > maxCalls

\* calls.length >= maxCalls
Full(calls, maxCalls) == Len(calls) >= maxCalls

\* oldestCall + windowMs - now; with an empty array (maxCalls = 0) it is
\* NaN, for which setTimeout takes 1 ms.
WaitTime(calls, windowMs) ==
    IF Len(calls) = 0 THEN 1 ELSE windowMs - Head(calls)

\* rateLimitedCall(fn) by caller c, from its entry to its await or to the
\* start of fn.
rateLimitedCall(lim, c) ==
    LET calls == Prune(lim.calls, lim.windowMs)
    IN IF Full(calls, lim.maxCalls)
       THEN [lim EXCEPT !.calls = calls,
                        !.callers[c] = [pc |-> "sleeping",
                                        remaining |-> WaitTime(calls, lim.windowMs)]]
       ELSE [lim EXCEPT !.calls = Append(calls, 0),
                        !.callers[c] = [pc |-> "idle", remaining |-> 0],
                        !.starts = Append(@, 0)]

\* The functions started less than windowMs ago, a millisecond later.
RECURSIVE Aged(_, _)
Aged(starts, windowMs) ==
    IF starts = <<>> THEN <<>>
    ELSE IF Head(starts) + 1 >= windowMs
    THEN Aged(Tail(starts), windowMs)
    ELSE <<Head(starts) + 1>> \o Aged(Tail(starts), windowMs)

InitLimiter ==
    /\ minProfitEth = DefaultMinProfitEth
    /\ retry = Null
    /\ \E maxCalls \in MaxCallsChoices : \E windowMs \in WindowChoices :
          limiter = [maxCalls |-> maxCalls, windowMs |-> windowMs,
                     calls |-> <<>>, starts |-> <<>>,
                     callers |-> [c \in Callers |->
                                    [pc |-> "idle", remaining |-> 0]]]
    /\ today = 0
    /\ MonitorIdle
    /\ RiskIdle
    /\ lastOp = "new"
    /\ BotIdle

\* A caller calls the limiter.
LimiterCall(c) ==
    /\ limiter.callers[c].pc = "idle"
    /\ limiter' = rateLimitedCall(limiter, c)
    /\ UNCHANGED retry
    /\ UtilsRest

\* The timer of a waiting caller has run out and its callback runs:
\* return rateLimitedCall(fn).
LimiterWake(c) ==
    /\ limiter.callers[c].pc = "sleeping"
    /\ limiter.callers[c].remaining = 0
    /\ limiter' = rateLimitedCall(limiter, c)
    /\ UNCHANGED retry
    /\ UtilsRest

\* A millisecond passes.  A timer that is due may still be waiting for the
\* event loop to get to it.
Tick ==
    /\ limiter' =
          [limiter EXCEPT
              !.calls = [k \in DOMAIN @ |-> Min(@[k] + 1, limiter.windowMs)],
              !.starts = Aged(@, limiter.windowMs),
              !.callers = [c \in Callers |->
                             [@[c] EXCEPT !.remaining =
                                 IF @ > 0 THEN @ - 1 ELSE 0]]]
    /\ UNCHANGED retry
    /\ UtilsRest

NextLimiter ==
    \/ \E c \in Callers : LimiterCall(c)
    \/ \E c \in Callers : LimiterWake(c)
    \/ Tick

\* Time passes and every timer that is due fires.
SpecLimiter ==
    /\ InitLimiter
    /\ [][NextLimiter]_vars
    /\ WF_vars(Tick)
    /\ \A c \in Callers : WF_vars(LimiterWake(c))

(***************************************************************************)
(* Properties of the bot                                                    *)
(***************************************************************************)
Copies(bag, r) == IF r \in DOMAIN bag THEN bag[r] ELSE 0

\* A step in which the timer of the sleeping activation l fires.
Wakes(l) ==
    /\ l.pc = "sleeping"
    /\ ~exited'
    /\ Copies(loops', l) < Copies(loops, l)

Tripped == tripDay = today /\ dailyStats # Null

HaltedLoop ==
    [NewLoop EXCEPT !.pc = "sleeping", !.delay = ScanInterval, !.halted = TRUE]

\* C3: once the breaker has tripped, no cycle issues fetches (and with them
\* detection and evaluation) before the date changes, whatever start() and
\* stop() calls are made in between.
C3_NoScanWhileTripped ==
    [][(tripDay = today /\ today' = today /\ ~exited')
          => NumLoops(loops', {"fetching"}) <= NumLoops(loops, {"fetching"})]_vars

\* C4: a cycle that issues fetches has seen shouldHaltTrading() false, and a
\* cycle that sees it true returns at once: the activation sleeps one scan
\* interval again, with no fetch pending, and price cache, counters and
\* daily stats are as before.
C4_HaltedCycleDoesNothing ==
    [][/\ (~exited' /\ NumLoops(loops', {"fetching"}) > NumLoops(loops, {"fetching"}))
          => ~shouldHaltTrading(dailyStats')
       /\ \A l \in DOMAIN loops :
             (/\ Wakes(l)
              /\ isRunning
              /\ shouldHaltTrading(resetDailyStats(dailyStats, today)))
                => /\ loops' = Replace(loops, l, HaltedLoop)
                   /\ priceCache' = priceCache
                   /\ stats' = stats
                   /\ dailyStats' = dailyStats]_vars

C4_Witness ==
    /\ isRunning
    /\ Tripped
    /\ stats.scansCompleted > 0
    /\ \E l \in DOMAIN loops : l.pc = "sleeping" /\ l.halted

\* C5: at most one monitorLoop activation is alive, so cycles never overlap.
C5_OneLoop == BagCardinality(loops) <= 1

\* C6: an interrupt never ends the process while a cycle is in flight.
C6_NoAbortInCycle ==
    [][(exited' /\ ~exited)
          => NumLoops(loops, {"fetching", "evaluating", "executing"}) = 0]_vars

\* C7: a cycle that threw leaves its activation asleep for twice the scan
\* interval (once otherwise); when the timer fires and the bot is running
\* the next cycle begins; an activation ends only when its timer fires and
\* the bot has been stopped.
C7_ErrorBacksOffAndContinues ==
    [][/\ \A r \in DOMAIN loops' :
             r.pc = "sleeping"
                => r.delay = IF r.threw THEN 2 * ScanInterval ELSE ScanInterval
       /\ \A l \in DOMAIN loops :
             (Wakes(l) /\ isRunning)
                => \E r \in DOMAIN loops' :
                      /\ r.pc = "fetching" \/ r = HaltedLoop
                      /\ loops' = Replace(loops, l, r)
       /\ (~exited' /\ BagCardinality(loops') < BagCardinality(loops))
             => /\ ~isRunning
                /\ \E l \in DOMAIN loops :
                      l.pc = "sleeping" /\ loops' = Remove(loops, l)]_vars

C7_Witness ==
    /\ isRunning
    /\ \E l \in DOMAIN loops :
          l.pc = "sleeping" /\ l.threw /\ l.delay = 2 * ScanInterval

(***************************************************************************)
(* Properties of the detector                                               *)
(***************************************************************************)
SameTokenSet(a, b) == {a.token0, a.token1} = {b.token0, b.token1}

CachePairs == {ij \in (DOMAIN priceCache) \X (DOMAIN priceCache) : ij[1] < ij[2]}

\* The opportunities of the last result that name these two pools.
OppsFor(a, b) ==
    {k \in DOMAIN scanResult :
        {scanResult[k].pair1.address, scanResult[k].pair2.address}
            = {a.pairAddress, b.pairAddress}}

Qualifies(a, b) ==
    /\ SameTokenSet(a, b)
    /\ ~RatLess(ProfitPercent(a.price0, b.price0), NoiseFloor)
    /\ RatLess(MinProfitPercent, ProfitPercent(a.price0, b.price0))

Scanned == lastOp = "scanForArbitrageOpportunities"

\* C8: the detector returns exactly one opportunity for each pair of cached
\* observations with equal token sets whose profitPercent is at least 0.1 and
\* above minProfitThreshold*100, and its result is in descending order of
\* profitPercent.
C8_OnePerQualifyingPairSorted ==
    Scanned =>
        /\ \A ij \in CachePairs :
              Qualifies(priceCache[ij[1]], priceCache[ij[2]])
                 => Cardinality(OppsFor(priceCache[ij[1]], priceCache[ij[2]])) = 1
        /\ \A k \in 1..(Len(scanResult) - 1) :
              ~RatLess(scanResult[k].profitPercent, scanResult[k + 1].profitPercent)

C8_Witness ==
    /\ Scanned
    /\ Len(scanResult) = 3
    /\ RatLess(scanResult[2].profitPercent, scanResult[1].profitPercent)
    /\ RatLess(scanResult[3].profitPercent, scanResult[2].profitPercent)

\* C9: every returned opportunity has profitPercent >= 0.1 and strictly above
\* minProfitThreshold*100; a matching pair below the 0.1 noise floor makes
\* calculateArbitrage return null and yields no opportunity.
C9_FloorAndThreshold ==
    Scanned =>
        /\ \A k \in DOMAIN scanResult :
              /\ ~RatLess(scanResult[k].profitPercent, NoiseFloor)
              /\ RatLess(MinProfitPercent, scanResult[k].profitPercent)
        /\ \A ij \in CachePairs :
              LET a == priceCache[ij[1]]
                  b == priceCache[ij[2]]
              IN (SameTokenSet(a, b)
                    /\ RatLess(ProfitPercent(a.price0, b.price0), NoiseFloor))
                 => /\ calculateArbitrage(a, b) = Null
                    /\ OppsFor(a, b) = {}

\* A matching pair under the floor but above the configured threshold, next
\* to a pair that is returned.
C9_Witness ==
    /\ Scanned
    /\ scanResult # <<>>
    /\ \E ij \in CachePairs :
          LET a == priceCache[ij[1]]
              b == priceCache[ij[2]]
          IN /\ SameTokenSet(a, b)
             /\ RatLess(ProfitPercent(a.price0, b.price0), NoiseFloor)
             /\ RatLess(MinProfitPercent, ProfitPercent(a.price0, b.price0))

Overlap(a, b) == {a.token0, a.token1} \cap {b.token0, b.token1}

\* C10: a pair of cached observations whose token sets are disjoint or only
\* partially overlapping produces no opportunity, whatever the prices.
C10_NoOpportunityAcrossTokenSets ==
    Scanned =>
        \A ij \in CachePairs :
            ~SameTokenSet(priceCache[ij[1]], priceCache[ij[2]])
                => OppsFor(priceCache[ij[1]], priceCache[ij[2]]) = {}

\* A partially overlapping pair with a price gap above every threshold.
C10_Witness ==
    /\ Scanned
    /\ \E ij \in CachePairs :
          LET a == priceCache[ij[1]]
              b == priceCache[ij[2]]
          IN /\ Cardinality(Overlap(a, b)) = 1
             /\ Cardinality({a.token0, a.token1} \cup {b.token0, b.token1}) = 3
             /\ RatLess(Rat(5, 1), ProfitPercent(a.price0, b.price0))
             /\ OppsFor(a, b) = {}

\* C11: for any two cached observations, hasSameTokenPair is true exactly
\* when their unordered token sets are equal, and swapping the arguments
\* does not change the result.
C11_SameTokenPairIsSetEquality ==
    \A i \in DOMAIN priceCache : \A j \in DOMAIN priceCache :
       /\ hasSameTokenPair(priceCache[i], priceCache[j])
             <=> SameTokenSet(priceCache[i], priceCache[j])
       /\ hasSameTokenPair(priceCache[i], priceCache[j])
             <=> hasSameTokenPair(priceCache[j], priceCache[i])

C11_Witness ==
    /\ \E i \in DOMAIN priceCache : \E j \in DOMAIN priceCache :
          /\ priceCache[i].token0 = priceCache[j].token1
          /\ priceCache[i].token1 = priceCache[j].token0
          /\ priceCache[i].token0 # priceCache[i].token1
          /\ hasSameTokenPair(priceCache[i], priceCache[j])
    /\ \E i \in DOMAIN priceCache : \E j \in DOMAIN priceCache :
          /\ Cardinality(Overlap(priceCache[i], priceCache[j])) = 1
          /\ ~hasSameTokenPair(priceCache[i], priceCache[j])

(***************************************************************************)
(* Properties of the price cache                                            *)
(***************************************************************************)
ZeroReserve(reserves) == reserves[1] = 0 \/ reserves[2] = 0

\* The last fetchPairPrice call came back from the pair contract.
Answered == lastFetch # Null /\ lastFetch.reserves # FetchFailed

Names(opportunity, address) ==
    address \in {opportunity.pair1.address, opportunity.pair2.address}

\* C12: a detector run that follows a poll in which a pool reported a zero
\* reserve returns no opportunity naming that pool.
C12_ZeroReservePoolFormsNoPair ==
    (Scanned /\ Answered /\ ZeroReserve(lastFetch.reserves))
       => \A k \in DOMAIN scanResult :
             ~Names(scanResult[k], lastFetch.pairAddress)

\* C13: every observation in the price cache has two positive reserves.
C13_CachedReservesPositive ==
    \A i \in DOMAIN priceCache :
       priceCache[i].reserve0 > 0 /\ priceCache[i].reserve1 > 0

C13_Witness ==
    /\ Answered
    /\ ZeroReserve(lastFetch.reserves)
    /\ IndexOf(priceCache, lastFetch.pairAddress) = 0
    /\ priceCache # <<>>

\* The observation the cache holds for a pool, if any.
Entry(cache, address) ==
    IF IndexOf(cache, address) = 0 THEN Null ELSE cache[IndexOf(cache, address)]

Watched(address) ==
    watchedPairs[CHOOSE i \in DOMAIN watchedPairs :
                    watchedPairs[i].pairAddress = address]

\* This step is a poll of the pool that produced an observation.
Polled(address) ==
    /\ lastFetch' # lastFetch
    /\ lastFetch'.pairAddress = address
    /\ lastFetch'.reserves # FetchFailed
    /\ ~ZeroReserve(lastFetch'.reserves)

\* C14: the cache holds at most one observation per pool; a poll that
\* produces an observation replaces what the cache held for its pool by
\* exactly that observation, and every other step leaves a pool's
\* observation as it was.
C14_LastWriteWins ==
    [][/\ \A i \in DOMAIN priceCache' : \A j \in DOMAIN priceCache' :
             priceCache'[i].pairAddress = priceCache'[j].pairAddress => i = j
       /\ \A address \in {"0xa478", "0xb4e1"} :
             Entry(priceCache', address) =
                IF Polled(address)
                THEN PriceData(Watched(address), lastFetch'.reserves)
                ELSE Entry(priceCache, address)]_vars

C14_Witness ==
    /\ Len(priceCache) = 2
    /\ Answered
    /\ ~ZeroReserve(lastFetch.reserves)
    /\ lastFetch.pairAddress = priceCache[1].pairAddress
    /\ priceCache[1].reserve1 = 1900

(***************************************************************************)
(* Properties of the scan cycle                                             *)
(***************************************************************************)
\* In this step the activation l becomes r.
Moves(l, r) == l # r /\ loops' = Replace(loops, l, r)

NumUnsettled(results) ==
    Cardinality({k \in DOMAIN results : results[k] = Unsettled})

PoolOf(l, k) == l.pending[k].pair.pairAddress

\* In this step call k of the fetching activation l settles with null and
\* the activation r keeps the results.
SettlesNull(l, r, k) ==
    /\ l.pc = "fetching"
    /\ Moves(l, r)
    /\ r.pc \in {"fetching", "evaluating"}
    /\ l.results[k] = Unsettled
    /\ r.results[k] = Null

\* C15: when a fetch of a cycle comes back without an observation, what the
\* cache holds for its pool stays as it was, the other calls of the cycle
\* stay as they were (settled or still awaited), and a detector run of that
\* cycle works on the cache with the kept observation; no step of a cycle
\* removes an observation from the cache.
C15_FailedFetchKeepsObservation ==
    [][/\ \A l \in DOMAIN loops : \A r \in DOMAIN loops' :
             \A k \in DOMAIN l.results :
                SettlesNull(l, r, k)
                   => /\ priceCache' = priceCache
                      /\ \A j \in DOMAIN l.results \ {k} :
                            r.results[j] = l.results[j]
                      /\ r.pc = "evaluating"
                            => r.opportunities =
                                  scanForArbitrageOpportunities(priceCache,
                                                                minProfitEth)
       /\ (~exited' /\ monitorId' = monitorId)
             => \A address \in DOMAIN BotTokens :
                   Entry(priceCache, address) # Null
                      => Entry(priceCache', address) # Null]_vars

C15_Witness ==
    \E l \in DOMAIN loops :
       /\ l.pc = "fetching"
       /\ \E k \in DOMAIN l.results :
             /\ l.results[k] = Null
             /\ Entry(priceCache, PoolOf(l, k)) # Null
       /\ \E k \in DOMAIN l.results : l.results[k] = Unsettled

\* C16: a cycle that fetches issues one call per watched pool; a call that
\* settles leaves the other calls as they are, whatever it came back with;
\* and the cycle goes past Promise.allSettled (counting, detection) only
\* with the call that settles last.
C16_JoinAll ==
    [][/\ (~exited' /\ NumLoops(loops', {"fetching"}) > NumLoops(loops, {"fetching"}))
             => \E r \in DOMAIN loops' :
                   /\ Copies(loops', r) > Copies(loops, r)
                   /\ r.pc = "fetching"
                   /\ Len(r.pending) = Len(watchedPairs')
                   /\ \A k \in DOMAIN r.pending :
                         /\ r.pending[k].pair = watchedPairs'[k]
                         /\ r.results[k] = Unsettled
       /\ \A l \in DOMAIN loops : \A r \in DOMAIN loops' :
             (l.pc = "fetching" /\ Moves(l, r))
                => IF r.pc = "fetching"
                   THEN /\ NumUnsettled(r.results) >= NumUnsettled(l.results) - 1
                        /\ \A k \in DOMAIN l.results :
                              l.results[k] # Unsettled
                                 => r.results[k] = l.results[k]
                        /\ stats' = stats
                   ELSE /\ NumUnsettled(l.results) <= 1
                        /\ stats'.scansCompleted = stats.scansCompleted + 1
       /\ (~exited' /\ stats'.scansCompleted # stats.scansCompleted)
             => \E l \in DOMAIN loops : \E r \in DOMAIN loops' :
                   /\ l.pc = "fetching"
                   /\ r.pc # "fetching"
                   /\ Moves(l, r)]_vars

C16_Witness ==
    \E l \in DOMAIN loops :
       /\ l.pc = "fetching"
       /\ Len(l.results) = 2
       /\ l.results[1] = Unsettled
       /\ l.results[2] = Null

\* C17: a cycle goes from its fetches to an evaluation only if one of its
\* calls came back with an observation, and then the opportunities it
\* selected from are the detector's result on the whole cache; a cycle in
\* which a call came back with an observation ends without an evaluation
\* only if the detector finds nothing in the whole cache.
C17_DetectorRunsIffRefreshed ==
    [][\A l \in DOMAIN loops : \A r \in DOMAIN loops' :
          (l.pc = "fetching" /\ r.pc # "fetching" /\ Moves(l, r))
             => /\ r.pc = "evaluating"
                   => /\ SuccessfulScans(r.results) > 0
                      /\ r.opportunities =
                            scanForArbitrageOpportunities(priceCache', minProfitEth)
                      /\ stats'.opportunitiesFound =
                            stats.opportunitiesFound + Len(r.opportunities)
                /\ (/\ r.pc = "sleeping"
                    /\ SuccessfulScans(l.results) > 0 \/ priceCache' # priceCache)
                   => /\ scanForArbitrageOpportunities(priceCache', minProfitEth)
                            = <<>>
                      /\ stats'.opportunitiesFound = stats.opportunitiesFound]_vars

C17_Witness ==
    \E l \in DOMAIN loops :
       /\ l.pc = "evaluating"
       /\ \E k \in DOMAIN l.results :
             /\ l.results[k] = Null
             /\ Names(l.opportunities[1], watchedPairs[k].pairAddress)


(***************************************************************************)
(* Properties of the evaluation stage                                       *)
(***************************************************************************)
Evaluating(l) == l.pc \in {"evaluating", "executing"}

\* Math.min(3, opportunities.length) as the claim words it.
TopOf(l) == IF Len(l.opportunities) < 3 THEN Len(l.opportunities) ELSE 3

Ranked(opps) ==
    \A j, k \in DOMAIN opps :
       j < k => ~RatLess(opps[j].profitPercent, opps[k].profitPercent)

Approvable(ds, opp) ==
    \E gasPrice \in BotGasChoices \ {GasFailed} :
       assessTradeRisk(ds, opp, DefaultTradeAmount, gasPrice, minProfitEth).approved

Profitable(opp) ==
    \E gasPrice \in BotGasChoices :
       isArbitrageProfitable(opp, gasPrice, minProfitEth)

\* C18: a cycle evaluates the opportunities of the detector's ranking one
\* after the other from the first, never beyond the third; an opportunity
\* reaches execution only from the risk step that approved it, and the
\* daily statistics gain a trade only in the execution step of the
\* opportunity under evaluation, when it is profitable, one trade at a time
\* together with tradesExecuted, after which the loop has left it.
C18_TopThreeInOrderRecordedAfterGates ==
    [][/\ \A l \in DOMAIN loops : \A r \in DOMAIN loops' :
             (Evaluating(l) /\ Moves(l, r))
                => /\ l.i \in 1..3
                   /\ l.i <= Len(l.opportunities)
                   /\ Ranked(l.opportunities)
                   /\ l.opportunities =
                         scanForArbitrageOpportunities(priceCache, minProfitEth)
                   /\ Evaluating(r) => r.opportunities = l.opportunities
                   /\ r.pc = "executing"
                         => /\ l.pc = "evaluating"
                            /\ r.i = l.i
                            /\ Approvable(dailyStats', l.opportunities[l.i])
                   /\ r.pc = "evaluating" => r.i = l.i + 1
                   /\ r.pc = "sleeping" => l.i = TopOf(l)
       /\ dailyStats'.trades # dailyStats.trades
             => \E l \in DOMAIN loops : \E r \in DOMAIN loops' :
                   /\ Moves(l, r)
                   /\ l.pc = "executing"
                   /\ r.pc # "executing"
                   /\ Profitable(l.opportunities[l.i])
                   /\ dailyStats'.trades = dailyStats.trades + 1
                   /\ stats'.tradesExecuted = stats.tradesExecuted + 1
                   /\ r.pc = "evaluating" => r.outcome = "executed"
       /\ stats'.tradesExecuted # stats.tradesExecuted
             => dailyStats'.trades = dailyStats.trades + 1]_vars

C18_Witness ==
    \E l \in DOMAIN loops :
       /\ l.pc = "executing"
       /\ l.i = 3
       /\ Len(l.opportunities) > 3
       /\ l.outcome = "executed"
       /\ stats.tradesExecuted = 2
       /\ dailyStats.trades = 2

\* C19: an evaluation that ends in an error (the gas lookup or the
\* execution throwing) records no trade and does not raise tradesExecuted,
\* the cycle does not take the error path of monitorLoop, and while the
\* cycle has opportunities left among its top three the next one is
\* evaluated.
C19_EvaluationErrorIsContained ==
    [][\A l \in DOMAIN loops : \A r \in DOMAIN loops' :
          (Evaluating(l) /\ Moves(l, r))
             => /\ ~r.threw
                /\ l.i < TopOf(l)
                      => \/ l.pc = "evaluating" /\ r.pc = "executing" /\ r.i = l.i
                         \/ r.pc = "evaluating" /\ r.i = l.i + 1
                /\ l.i = TopOf(l)
                      => \/ l.pc = "evaluating" /\ r.pc = "executing" /\ r.i = l.i
                         \/ r.pc = "sleeping" /\ r.delay = ScanInterval
                /\ (r.pc = "evaluating" /\ r.outcome = "error")
                      => /\ dailyStats'.trades = dailyStats.trades
                         /\ stats' = stats]_vars

C19_Witness ==
    \E l \in DOMAIN loops :
       /\ l.pc = "evaluating"
       /\ l.i = 3
       /\ l.outcome = "error"
       /\ stats.tradesExecuted = 1

(***************************************************************************)
(* Properties of the risk score                                             *)
(***************************************************************************)
Weight(level) ==
    CASE level = "critical" -> 100
      [] level = "high" -> 25
      [] level = "medium" -> 5
      [] OTHER -> 0

RECURSIVE WeightSum(_)
WeightSum(risks) ==
    IF risks = <<>> THEN 0 ELSE Weight(Head(risks).level) + WeightSum(Tail(risks))

Levels(a) == {a.risks[i].level : i \in DOMAIN a.risks}

\* C20: the score of an assessment is the sum over its risks list of 100 for
\* a critical risk, 25 for a high risk and 5 for a medium risk.
C20_ScoreIsWeightedCount ==
    lastOp = "assessTradeRisk" => assessment.score = WeightSum(assessment.risks)

\* An assessment listing risks of all three levels, scored above 100.
C20_Witness ==
    /\ lastOp = "assessTradeRisk"
    /\ Levels(assessment) = {"critical", "high", "medium"}
    /\ Len(assessment.risks) >= 4
    /\ assessment.score > 100

(***************************************************************************)
(* Properties of the risk manager                                           *)
(***************************************************************************)
Assessed == lastOp = "assessTradeRisk"

RuleLevel(fires, level) == IF fires THEN <<level>> ELSE <<>>

LevelsOf(risks) == [i \in DOMAIN risks |-> risks[i].level]

\* The levels the six rules give for the arguments of the last call, in
\* the order of the rules.
RuleLevels ==
    LET pp == lastCall.opportunity.profitPercent
    IN RuleLevel(pp.num * 100 < minProfitEth * pp.den, "high")
       \o RuleLevel(pp.num < MaxSlippage * pp.den, "medium")
       \o RuleLevel(lastCall.gasPrice > MaxGasPrice, "high")
       \o RuleLevel(lastCall.tradeAmount > MaxTradeSize, "high")
       \o RuleLevel(dailyStats.totalLoss >= DailyLossLimit, "critical")
       \o RuleLevel(pp.num > 10 * pp.den, "medium")

\* C21: the risks list of an assessment holds, in the order of the six
\* rules, one entry for each rule that fires on the arguments of the call
\* and on the cumulative loss of the day, and nothing else.
C21_SixRulesInOrder ==
    Assessed => LevelsOf(assessment.risks) = RuleLevels

\* A gas price above the ceiling on an opportunity nothing else is wrong
\* with: exactly one high entry.
C21_Witness ==
    /\ Assessed
    /\ lastCall.gasPrice > MaxGasPrice
    /\ lastCall.opportunity.profitPercent = Rat(5, 1)
    /\ lastCall.tradeAmount <= MaxTradeSize
    /\ dailyStats.totalLoss < DailyLossLimit
    /\ LevelsOf(assessment.risks) = <<"high">>

Band(score) ==
    CASE score >= 100 -> "REJECT - Critical risks present"
      [] score >= 50 /\ score < 100 -> "REJECT - High risk"
      [] score >= 25 /\ score < 50 -> "CAUTION - Medium risk"
      [] score >= 10 /\ score < 25 -> "PROCEED - Low risk"
      [] score < 10 -> "PROCEED - Minimal risk"

\* C22: every assessment carries the recommendation of the band its score
\* falls in, the assessment without risks (score 0) included.
C22_RecommendationByScore ==
    Assessed => assessment.recommendation = Band(assessment.score)

\* C23: a recordTradeResult call raises the trade count by one and adds the
\* profit, in wei, to the cumulative profit when it is above zero, and its
\* absolute value to the cumulative loss otherwise; the other accumulator
\* and the date of the window stay as they were.
C23_RecordChangesOneAccumulator ==
    [][lastOp' = "recordTradeResult"
          => LET p == lastCall'.profit
                 wei == (Abs(p.num) * UnitsPerEth) \div p.den
             IN /\ dailyStats'.trades = dailyStats.trades + 1
                /\ dailyStats'.date = dailyStats.date
                /\ p.num > 0
                      => /\ dailyStats'.totalProfit = dailyStats.totalProfit + wei
                         /\ dailyStats'.totalLoss = dailyStats.totalLoss
                /\ p.num <= 0
                      => /\ dailyStats'.totalLoss = dailyStats.totalLoss + wei
                         /\ dailyStats'.totalProfit = dailyStats.totalProfit]_vars

\* A loss recorded after a profit.
C23_Witness ==
    /\ lastOp = "recordTradeResult"
    /\ lastCall.profit.num < 0
    /\ dailyStats.trades = 2
    /\ dailyStats.totalProfit > 0
    /\ dailyStats.totalLoss > 0

\* C24: while the date has not changed since the process started, the
\* daily statistics count at least the trades the scan loops of the process
\* have executed and recorded (stats.tradesExecuted is never reset).
C24_StatsReflectEveryTrade ==
    (dailyStats # Null /\ today = 0 /\ dailyStats.date = today)
       => dailyStats.trades >= stats.tradesExecuted

Reads == {"assessTradeRisk", "shouldHaltTrading", "getDailyStats"}

Accesses == Reads \cup {"recordTradeResult"}

\* C26: after any operation on the daily statistics the window is that of
\* the current date, and what getDailyStats returned is of the current date.
C26_EveryAccessRollsTheWindow ==
    /\ lastOp \in Accesses => dailyStats.date = today
    /\ lastOp = "getDailyStats" => lastCall.result.date = today

(***************************************************************************)
(* Properties of the detector's result                                      *)
(***************************************************************************)
Unstamped(opps) ==
    [k \in DOMAIN opps |->
        [f \in DOMAIN opps[k] \ {"timestamp"} |-> opps[k][f]]]

\* A detector call that directly follows a detector call.
Rescan == Scanned /\ lastOp' = "scanForArbitrageOpportunities"

ScanLeavesMonitorAlone ==
    lastOp' = "scanForArbitrageOpportunities"
       => priceCache' = priceCache /\ watchedPairs' = watchedPairs

Encounter(opportunity) ==
    <<IndexOf(priceCache, opportunity.pair1.address),
      IndexOf(priceCache, opportunity.pair2.address)>>

Earlier(a, b) == a[1] < b[1] \/ (a[1] = b[1] /\ a[2] < b[2])

Tied(k, m) == RatEq(scanResult[k].profitPercent, scanResult[m].profitPercent)

\* C28: of two opportunities of a result with equal profitPercent the one
\* whose pair (i, j), i < j, the loops over the cache visit first comes
\* first.
C28_TiesInEncounterOrder ==
    Scanned =>
        \A k, m \in DOMAIN scanResult :
           (k < m /\ Tied(k, m))
              => /\ Encounter(scanResult[k])[1] < Encounter(scanResult[k])[2]
                 /\ Earlier(Encounter(scanResult[k]), Encounter(scanResult[m]))

\* More than three opportunities with a tie across the third place.
C28_Witness ==
    /\ Scanned
    /\ Len(scanResult) > 3
    /\ Tied(1, 2)
    /\ Tied(2, 3)
    /\ Tied(3, 4)
    /\ Encounter(scanResult[4])[1] > 1

(***************************************************************************)
(* Properties of the executor                                               *)
(***************************************************************************)
Gated == lastOp = "isArbitrageProfitable"

\* estimatedProfit - gasCost >= minProfitThreshold with
\* estimatedProfit = profitPercent / 100 * 0.1 ETH, gasCost = 300000 * gas
\* price (gwei, 1e-9 ETH) and the threshold minProfitEth (1e-4 ETH), all
\* multiplied by 1e9 and by the denominator of profitPercent.
NetAtLeastThreshold(pp, gasPrice, minProfit) ==
    pp.num * 1000000 - 300000 * gasPrice * pp.den >= minProfit * 100000 * pp.den

\* C29: with a gas price at hand isArbitrageProfitable answers true exactly
\* when profitPercent/100 of the 0.1 trade size, less 300000 times the gas
\* price, is at least the minimum profit.
C29_GateIsNetAtLeastThreshold ==
    (Gated /\ lastCall.gasPrice # GasFailed)
       => (lastCall.result
              <=> NetAtLeastThreshold(lastCall.opportunity.profitPercent,
                                      lastCall.gasPrice, minProfitEth))

\* A net profit equal to the minimum: profitPercent 10.3 at 1 gwei against
\* the default 0.01.
C29_Witness ==
    /\ Gated
    /\ lastCall.gasPrice = 1
    /\ minProfitEth = DefaultMinProfitEth
    /\ lastCall.opportunity.profitPercent = Rat(103, 10)
    /\ lastCall.result

\* C30: executeArbitrage returns a result with the success flag, the trade
\* size, the estimated profit, the gas used and the two exchange labels,
\* and sends nothing to the chain.
C30_SimulatedExecutionAlwaysSucceeds ==
    lastOp = "executeArbitrage"
       => /\ lastCall.result # Null
          /\ lastCall.result.success
          /\ lastCall.result.tradeAmount = DefaultTradeAmount
          /\ lastCall.result.estimatedProfit = lastCall.opportunity.profitPercent
          /\ lastCall.result.gasUsed = 300000
          /\ lastCall.result.exchangeUsed =
                <<lastCall.opportunity.pair1.exchange,
                  lastCall.opportunity.pair2.exchange>>
          /\ lastCall.chainCalls = 0

(***************************************************************************)
(* Properties of fetchPairPrice and calculateArbitrage                      *)
(***************************************************************************)
\* C31: of two consecutive fetchPairPrice calls for a pool, one whose
\* getReserves() fails and one whose pool reports a zero reserve, the
\* values returned differ.
C31_FailureDistinctFromZeroReserve ==
    [][(/\ lastFetch # Null
        /\ lastFetch' # Null
        /\ lastFetch'.pairAddress = lastFetch.pairAddress
        /\ lastFetch.reserves = FetchFailed
        /\ lastFetch'.reserves # FetchFailed
        /\ ZeroReserve(lastFetch'.reserves))
          => lastFetch'.value # lastFetch.value]_vars

\* |priceA - priceB| and priceA + priceB of two observations, both times
\* reserve0 of A times reserve0 of B.
PriceDiff(a, b) == Abs(a.reserve1 * b.reserve0 - b.reserve1 * a.reserve0)

PriceSum(a, b) == a.reserve1 * b.reserve0 + b.reserve1 * a.reserve0

\* x = |priceA - priceB| / ((priceA + priceB) / 2) * 100
IsSpread(x, a, b) == x.num * PriceSum(a, b) = x.den * 200 * PriceDiff(a, b)

\* |priceA - priceB| / ((priceA + priceB) / 2) * 100 >= 0.1
SpreadAtLeastFloor(a, b) == 2000 * PriceDiff(a, b) >= PriceSum(a, b)

PricesAre(a, b, pa, pb) ==
    /\ a.reserve1 = pa * a.reserve0
    /\ b.reserve1 = pb * b.reserve0

\* C32: for two cached observations of one token pair whose spread
\* |priceA - priceB| / ((priceA + priceB) / 2) * 100 is at least 0.1,
\* calculateArbitrage returns an opportunity whose profitPercent is that
\* spread and is positive; on a cache of two such observations with prices
\* 1800 and 1900 and the default threshold the detector returns exactly one
\* opportunity, of 200/37 (about 5.41) percent.
C32_ProfitPercentIsSpread ==
    Scanned =>
        \A ij \in CachePairs :
           LET a == priceCache[ij[1]]
               b == priceCache[ij[2]]
               opp == calculateArbitrage(a, b)
           IN /\ (SameTokenSet(a, b) /\ SpreadAtLeastFloor(a, b))
                    => /\ opp # Null
                       /\ IsSpread(opp.profitPercent, a, b)
                       /\ opp.profitPercent.num > 0
                       /\ opp.profitPercent.den > 0
              /\ (/\ Len(priceCache) = 2
                  /\ SameTokenSet(a, b)
                  /\ PricesAre(a, b, 1800, 1900) \/ PricesAre(a, b, 1900, 1800)
                  /\ minProfitEth = DefaultMinProfitEth)
                    => /\ Len(scanResult) = 1
                       /\ scanResult[1].profitPercent = Rat(200, 37)
                       /\ scanResult[1].profitPercent = opp.profitPercent

\* The scenario: two observations at 1800 and 1900, default threshold.
C32_Witness ==
    /\ Scanned
    /\ minProfitEth = DefaultMinProfitEth
    /\ Len(priceCache) = 2
    /\ SameTokenSet(priceCache[1], priceCache[2])
    /\ PricesAre(priceCache[1], priceCache[2], 1800, 1900)
    /\ Len(scanResult) = 1

\* The cached observation of a pool, and its place in the cache.
Observation(address) ==
    priceCache[CHOOSE i \in DOMAIN priceCache :
                  priceCache[i].pairAddress = address]

Place(address) ==
    CHOOSE i \in DOMAIN priceCache : priceCache[i].pairAddress = address

ReversedOrder(a, b) == a.token0 = b.token1 /\ a.token1 = b.token0

\* C33: an opportunity between two observations of reversed token order
\* has the spread of the two price0 values as they were observed (reserve1
\* per reserve0 of each pool, neither inverted) and carries the token0 and
\* token1 of the first of the two observations.
C33_ReversedOrderUsesOwnPrice0 ==
    Scanned =>
        \A k \in DOMAIN scanResult :
           LET opp == scanResult[k]
               a == Observation(opp.pair1.address)
               b == Observation(opp.pair2.address)
           IN ReversedOrder(a, b)
                => /\ IsSpread(opp.profitPercent, a, b)
                   /\ RatEq(opp.pair1.price, Rat(a.reserve1, a.reserve0))
                   /\ RatEq(opp.pair2.price, Rat(b.reserve1, b.reserve0))
                   /\ Place(opp.pair1.address) < Place(opp.pair2.address)
                   /\ opp.token0 = a.token0
                   /\ opp.token1 = a.token1

C33_Witness ==
    /\ Scanned
    /\ \E k \in DOMAIN scanResult :
          /\ ReversedOrder(Observation(scanResult[k].pair1.address),
                           Observation(scanResult[k].pair2.address))
          /\ scanResult[k].token0
                # Observation(scanResult[k].pair2.address).token0

(* Properties of the scan loop's trades *)

\* C34: the recordTradeResult calls of the scan loop accumulate the daily
\* loss that trips the circuit breaker: in a bot left to itself, a day on
\* which the loop has recorded trades shows a cumulative loss.
C34_LoopAccumulatesLoss ==
    (/\ dailyStats # Null
     /\ dailyStats.date = today
     /\ dailyStats.trades > 0)
        => dailyStats.totalLoss > 0

\* What holds instead: left to itself the bot never records a loss, so
\* shouldHaltTrading() never returns true.
LoopNeverRecordsLoss ==
    dailyStats # Null
        => /\ dailyStats.totalLoss = 0
           /\ ~shouldHaltTrading(dailyStats)

LoopRecordedTrades ==
    /\ dailyStats # Null
    /\ dailyStats.trades = MaxTrades

\* What the risk scorer answers for the opportunity the activation l is
\* evaluating, at a gas price the gas lookup returned.
LoopAssessment(l, gasPrice) ==
    assessTradeRisk(resetDailyStats(dailyStats, today), l.opportunities[l.i],
                    DefaultTradeAmount, gasPrice, minProfitEth)

GasPrices == BotGasChoices \ {GasFailed}

\* C35: while the cumulative loss of the day is below the ceiling, every
\* opportunity the scan loop passes to the risk scorer is approved with a
\* score of at most 30: of the six rules at most the gas rule and one
\* medium rule fire, and no evaluation ends rejected.
C35_LoopOpportunitiesApproved ==
    [][\A l \in DOMAIN loops :
          (/\ l.pc = "evaluating"
           /\ resetDailyStats(dailyStats, today).totalLoss < DailyLossLimit)
             => /\ \A gasPrice \in GasPrices :
                      LET risk == LoopAssessment(l, gasPrice)
                      IN /\ risk.approved
                         /\ risk.score <= 30
                         /\ LevelsOf(risk.risks)
                               \in {<<>>, <<"medium">>, <<"high">>,
                                    <<"medium", "high">>, <<"high", "medium">>}
                         /\ "high" \in Levels(risk) => gasPrice > MaxGasPrice
                /\ \A r \in DOMAIN loops' :
                      Moves(l, r) => r.outcome # "rejected"]_vars

\* An approved opportunity on its way to execution that scores 30 at a gas
\* price above the ceiling, with a second one still to be evaluated.
C35_Witness ==
    \E l \in DOMAIN loops :
       /\ l.pc = "executing"
       /\ l.i < TopOf(l)
       /\ \E gasPrice \in GasPrices : LoopAssessment(l, gasPrice).score = 30

(* Properties of assessTradeRisk over all its inputs *)
Reasons(a) == {a.risks[i].reason : i \in DOMAIN a.risks}

\* C36: the score of every assessment is a multiple of 5 between 0 and
\* 180; the slippage rule and the suspicious-profit rule never fire
\* together, so at most five risks are listed; and the assessment is
\* approved exactly when the score is below 50.
C36_ScoreRangeAndApproval ==
    Assessed =>
        /\ assessment.score % 5 = 0
        /\ assessment.score >= 0
        /\ assessment.score <= 180
        /\ ~({"low profit margin", "potential frontrunning"}
                \subseteq Reasons(assessment))
        /\ Len(assessment.risks) <= 5
        /\ assessment.approved <=> assessment.score < 50

\* Five risks at once: the highest score there is.
C36_Witness ==
    /\ Assessed
    /\ Len(assessment.risks) = 5
    /\ assessment.score = 180
    /\ ~assessment.approved

(* Properties of the gate and the risk scorer together *)
Flagged(opportunity, gasPrice) ==
    "potential frontrunning"
        \in Reasons(assessTradeRisk(NewDailyStats(today), opportunity,
                                    DefaultTradeAmount, gasPrice, minProfitEth))

C37_WitnessAtTen ==
    /\ Gated
    /\ minProfitEth = DefaultMinProfitEth
    /\ lastCall.result
    /\ lastCall.gasPrice = 0
    /\ lastCall.opportunity.profitPercent = Rat(10, 1)

\* The same on the scan loop, whose gas prices are all positive: a trade is
\* recorded only for an opportunity the risk scorer flags.
LoopExecutesOnlyFlagged ==
    [][\A l \in DOMAIN loops :
          (/\ l.pc = "executing"
           /\ stats'.tradesExecuted # stats.tradesExecuted
           /\ \E r \in DOMAIN loops' : Moves(l, r))
             => \A gasPrice \in BotGasChoices \ {GasFailed} :
                   Flagged(l.opportunities[l.i], gasPrice)]_vars

(* Properties of stop() *)
StopCalled == lastOp = "stop"

\* A step in which a scan cycle begins.
CycleBegins ==
    \/ \E init \in DOMAIN inits : Copies(inits', init) < Copies(inits, init)
                                     /\ isRunning'
                                     /\ BagCardinality(loops') > BagCardinality(loops)
    \/ \E l \in DOMAIN loops : \E r \in DOMAIN loops' :
          l.pc = "sleeping" /\ Moves(l, r)

\* C38: once stop() has been called on a started bot, and start() is not
\* called again, no scan cycle begins any more and the monitor loop comes
\* to its end.
C38_StopEndsTheLoop ==
    /\ [][StopCalled => ~CycleBegins]_vars
    /\ StopCalled ~> (loops = EmptyBag /\ inits = EmptyBag)

\* The same for a stop() that no start() is behind: none whose initialize()
\* is still pending.
StopWithoutPendingStartEndsTheLoop ==
    /\ [][(StopCalled /\ ~isRunning /\ inits = EmptyBag) => ~CycleBegins]_vars
    /\ (StopCalled /\ ~isRunning /\ inits = EmptyBag) ~> loops = EmptyBag

StoppedInFlight ==
    /\ StopCalled
    /\ \E l \in DOMAIN loops : l.pc = "executing"

(* Properties of Web3Utils.retry *)
RECURSIVE Pow2(_)
Pow2(n) == IF n = 0 THEN 1 ELSE 2 * Pow2(n - 1)

Failed(outcomes, k) == outcomes[k] # "ok"

RetryDone == retry # Null /\ retry.pc \in {"returned", "thrown"}

Waiting(c) == limiter.callers[c].pc = "sleeping"

\* The functions started within the last windowMs milliseconds.
StartedInWindow == Len(limiter.starts)

NumWaiting == Cardinality({c \in Callers : Waiting(c)})

\* A step in which a function is started.
Starts ==
    \E c \in Callers :
       /\ limiter' = rateLimitedCall(limiter, c)
       /\ ~Waiting(c)'
       /\ limiter' # limiter

\* C40: whatever the order in which the callers call and their timers
\* fire, at most maxCalls functions are started within windowMs, and with
\* maxCalls >= 1 a caller that waits has its function started in the end.
C40_LimitedAndNoCallerWaitsForever ==
    /\ [](StartedInWindow <= limiter.maxCalls)
    /\ \A c \in Callers :
          (Waiting(c) /\ limiter.maxCalls >= 1) ~> ~Waiting(c)

\* What holds of the limiter: the bound on the starts, and with
\* maxCalls >= 1 some function is started while callers wait; which
\* caller's it is the limiter does not say.
LimiterBoundsAndProgresses ==
    /\ [](StartedInWindow <= limiter.maxCalls)
    /\ [](Len(limiter.calls) <= limiter.maxCalls)
    /\ (NumWaiting > 0 /\ limiter.maxCalls >= 1)
          ~> (StartedInWindow > 0 /\ limiter.calls[Len(limiter.calls)] = 0)

LimiterFullWindow ==
    /\ limiter.maxCalls = 2
    /\ StartedInWindow = 2
    /\ NumWaiting = 1

====
